---- MODULE Spec2Model ----
(***************************************************************************)
(* Degenerus demo API: the wager settlement engine (game.js), the SQLite   *)
(* store (storage.js) and the /api/spin handler that runs spinFullTicket   *)
(* inside atomicSpin.                                                      *)
(*                                                                         *)
(* Amounts.  balance_wwxrp, bet_amount, payout and net are REAL columns    *)
(* holding IEEE doubles.  The model counts amounts in steps of 1/UNIT of a *)
(* token: a stake is a whole number of steps (a whole number of tokens     *)
(* where the handler admits nothing else) and a computed payout is rounded *)
(* down to a step.                                                         *)
(*                                                                         *)
(* Store.  storage.js opens the database in WAL mode and atomicSpin runs   *)
(* its statements in one deferred better-sqlite3 transaction.  Several     *)
(* connections (server processes, the export script) share the file, so a  *)
(* transaction is modelled statement by statement: the first SELECT takes  *)
(* a read snapshot, the first write needs the single write lock and fails  *)
(* with SQLITE_BUSY when the snapshot is no longer the newest committed    *)
(* state or the lock is held, an exception rolls the transaction back, and *)
(* COMMIT publishes its writes at once.                                    *)
(***************************************************************************)
EXTENDS Integers, Sequences, FiniteSets, TLC

----------------------------------------------------------------------------
(* game.js: constants *)

BUCKET_WEIGHTS == <<10, 10, 10, 10, 9, 9, 9, 8>>
TOTAL_WEIGHT == 75
FULL_TICKET_PAYOUTS_BPS == <<0, 0, 189, 500, 1778, 6667, 31100, 155600, 355600>>
JACKPOT_MULTIPLIER_BPS == 10000000
SPECIAL_MATCH_MIN_MULTIPLIER_BPS == 400
CURRENCY_WWXRP == 3
CURRENCY_ETH == 0

MIN_SCORE == 0
MID_SCORE == 7500
HIGH_SCORE == 25500
MAX_SCORE == 35500
ROI_MIN == 9000
ROI_MID == 9500
ROI_HIGH == 9950
ROI_MAX == 9990
ETH_ROI_BONUS_BPS == 500
WWXRP_HIGH_ROI_MIN == 9000
WWXRP_HIGH_ROI_MAX == 10990
WWXRP_BONUS_FACTOR_SCALE == 1000000
WWXRP_BONUS_FACTOR_BUCKET5 == 144136
WWXRP_BONUS_FACTOR_BUCKET6 == 900848
WWXRP_BONUS_FACTOR_BUCKET7 == 4206141
WWXRP_BONUS_FACTOR_BUCKET8 == 97914359
WWXRP_BONUS_FACTOR_BUCKET9 == 344701627
\* FULL_TICKET_NON_WWXRP_SCALE = 0.871470, as a ratio of integers
NON_WWXRP_SCALE_NUM == 87147
NON_WWXRP_SCALE_DEN == 100000
ACTIVITY_STEP == 100

----------------------------------------------------------------------------
(* Numbers *)

\* amounts are counted in steps of 1/UNIT of a token
UNIT == 2
Tokens(n) == n * UNIT

\* a JavaScript number as a request carries it: Number(req.body?.amount)
Num(steps) == [finite |-> TRUE, value |-> steps]
NaN == [finite |-> FALSE, value |-> 0]
IsFinite(x) == x.finite
IsInteger(x) == x.finite /\ x.value % UNIT = 0

Min(a, b) == IF a <= b THEN a ELSE b
Max(a, b) == IF a >= b THEN a ELSE b

\* <<q, r>> with a * b = q * c + r and 0 <= r < c, without forming a * b
\* (the products of the payout formula exceed 32 bits): h is the pair for
\* b \div 2, doubled and, for odd b, increased by a.
MulDivStep(h, a, b, c) ==
  LET q2 == 2 * h[1] + ((2 * h[2]) \div c)
      r2 == (2 * h[2]) % c
  IN  IF b % 2 = 0 THEN <<q2, r2>>
      ELSE <<q2 + (a \div c) + ((r2 + (a % c)) \div c), (r2 + (a % c)) % c>>

RECURSIVE MulDivQR(_, _, _)
MulDivQR(a, b, c) ==
  IF b = 0 THEN <<0, 0>>
  ELSE CHOOSE qr \in {MulDivStep(h, a, b, c) : h \in {MulDivQR(a, b \div 2, c)}} : TRUE

\* Math.floor(a * b / c) for naturals a, b and c > 0; the arguments are
\* bound to their values before the recursion starts
MulDivFloor(a, b, c) ==
  (CHOOSE qr \in {MulDivQR(x, y, z) : x \in {a}, y \in {b}, z \in {c}} : TRUE)[1]

----------------------------------------------------------------------------
(* game.js: outcome generation and scoring *)

\* weightedBucket(randomValue): cumulative-weight bucketing in index order
RECURSIVE BucketScan(_, _, _)
BucketScan(value, i, cumulative) ==
  IF i > Len(BUCKET_WEIGHTS) THEN 7
  ELSE IF value < cumulative + BUCKET_WEIGHTS[i] THEN i - 1
  ELSE BucketScan(value, i + 1, cumulative + BUCKET_WEIGHTS[i])

\* variant: the loop compares with <= instead of <
weightedBucketInclusive(randomValue) ==
  BucketScan((randomValue % TOTAL_WEIGHT) - 1, 1, 0)

weightedBucket(randomValue) == BucketScan(randomValue % TOTAL_WEIGHT, 1, 0)

\* the special marker of a house ticket from its roll in 0..99
HouseSpecial(roll) ==
  IF roll = 0 THEN 1 ELSE IF roll = 1 THEN 2 ELSE IF roll = 2 THEN 3 ELSE 0

\* generateRandomTicket(false): draws is the sequence of the eight
\* crypto.randomInt(75) values in call order, roll the randomInt(100) value
generateRandomTicket(draws, roll) ==
  [traits  |-> [q \in 1..4 |->
                  [quadrant |-> q - 1,
                   color    |-> weightedBucket(draws[2 * q - 1]),
                   symbol   |-> weightedBucket(draws[2 * q])]],
   special |-> HouseSpecial(roll)]

RECURSIVE CountFrom(_, _, _)
CountFrom(playerTicket, resultTicket, q) ==
  IF q > 4 THEN 0
  ELSE (IF playerTicket.traits[q].color = resultTicket.traits[q].color THEN 1 ELSE 0)
     + (IF playerTicket.traits[q].symbol = resultTicket.traits[q].symbol THEN 1 ELSE 0)
     + CountFrom(playerTicket, resultTicket, q + 1)

\* variant: a quadrant counts only when both of its attributes match
countMatchesPerQuadrant(playerTicket, resultTicket) ==
  2 * Cardinality({q \in 1..4 :
                     /\ playerTicket.traits[q].color = resultTicket.traits[q].color
                     /\ playerTicket.traits[q].symbol = resultTicket.traits[q].symbol})

countMatches(playerTicket, resultTicket) == CountFrom(playerTicket, resultTicket, 1)

specialsMatch(playerSpecial, resultSpecial) ==
  playerSpecial # 0 /\ playerSpecial = resultSpecial

----------------------------------------------------------------------------
(* game.js: return curve *)

\* Scores at which the double-precision product in calculateRoi falls just
\* below the integer the exact quotient reaches, so Math.floor yields one less.
RoiFloatShortfall ==
  {5250, 12100, 12260, 12420, 16660, 16700, 16980, 17020, 17300, 17340, 17620}

\* the curve of calculateRoi in exact arithmetic
RoiCurve(activityScore) ==
  IF activityScore <= MIN_SCORE THEN ROI_MIN
  ELSE IF activityScore <= MID_SCORE THEN
    ROI_MIN + MulDivFloor((ROI_MID - ROI_MIN) * activityScore, activityScore,
                          MID_SCORE * MID_SCORE)
  ELSE IF activityScore <= HIGH_SCORE THEN
    ROI_MID + ((ROI_HIGH - ROI_MID) * (activityScore - MID_SCORE))
                \div (HIGH_SCORE - MID_SCORE)
  ELSE IF activityScore <= MAX_SCORE THEN
    ROI_HIGH + ((ROI_MAX - ROI_HIGH) * (activityScore - HIGH_SCORE))
                \div (MAX_SCORE - HIGH_SCORE)
  ELSE ROI_MAX

\* variant: the quadratic segment rises to ROI_HIGH instead of ROI_MID
calculateRoiWrongAnchor(activityScore, currency) ==
  IF activityScore > MIN_SCORE /\ activityScore <= MID_SCORE
    THEN ROI_MIN + MulDivFloor((ROI_HIGH - ROI_MIN) * activityScore, activityScore,
                               MID_SCORE * MID_SCORE)
  ELSE RoiCurve(activityScore)

calculateRoi(activityScore, currency) ==
  IF activityScore \in RoiFloatShortfall
    THEN RoiCurve(activityScore) - 1
  ELSE RoiCurve(activityScore)

calculateWwxrpHighRoi(activityScore) ==
  IF activityScore <= MIN_SCORE THEN WWXRP_HIGH_ROI_MIN
  ELSE IF activityScore >= MAX_SCORE THEN WWXRP_HIGH_ROI_MAX
  ELSE WWXRP_HIGH_ROI_MIN
         + ((WWXRP_HIGH_ROI_MAX - WWXRP_HIGH_ROI_MIN) * activityScore) \div MAX_SCORE

bonusBucket(matches, specialMatch) ==
  IF matches < 5 THEN 0
  ELSE IF matches = 8 THEN (IF specialMatch THEN 9 ELSE 8)
  ELSE matches

BonusFactor(bucket) ==
  IF bucket = 5 THEN WWXRP_BONUS_FACTOR_BUCKET5
  ELSE IF bucket = 6 THEN WWXRP_BONUS_FACTOR_BUCKET6
  ELSE IF bucket = 7 THEN WWXRP_BONUS_FACTOR_BUCKET7
  ELSE IF bucket = 8 THEN WWXRP_BONUS_FACTOR_BUCKET8
  ELSE IF bucket = 9 THEN WWXRP_BONUS_FACTOR_BUCKET9
  ELSE 0

bonusRoiForBucket(bucket, bonusRoiBps) ==
  IF BonusFactor(bucket) = 0 THEN 0
  ELSE MulDivFloor(bonusRoiBps, BonusFactor(bucket), WWXRP_BONUS_FACTOR_SCALE)

\* calculateEvNormalization(playerTicket) = (10/75)^8 / prod(w/75): the
\* quotient of EvNormNum by EvNormDen(playerTicket)
EvNormNum == 100000000

\* totalWeightProduct over quadrants q..4 for a table of weights
RECURSIVE WeightProductOf(_, _, _)
WeightProductOf(weights, playerTicket, q) ==
  IF q > 4 THEN 1
  ELSE weights[playerTicket.traits[q].color + 1]
     * weights[playerTicket.traits[q].symbol + 1]
     * WeightProductOf(weights, playerTicket, q + 1)

WeightProduct(playerTicket, q) == WeightProductOf(BUCKET_WEIGHTS, playerTicket, q)

EvNormDen(playerTicket) == WeightProduct(playerTicket, 1)

----------------------------------------------------------------------------
(* game.js: spinFullTicket *)

NoResult == [null |-> TRUE]

\* variant: eight matches pay the jackpot whatever the special markers
PayoutMultiplierBpsAnyEight(matches, hasSpecialMatch) ==
  IF matches = 8 THEN JACKPOT_MULTIPLIER_BPS
  ELSE IF hasSpecialMatch THEN
    Max(FULL_TICKET_PAYOUTS_BPS[Min(matches + 1, 8) + 1],
        SPECIAL_MATCH_MIN_MULTIPLIER_BPS)
  ELSE FULL_TICKET_PAYOUTS_BPS[matches + 1]

\* variant: Math.min in place of Math.max
PayoutMultiplierBpsCapped(matches, hasSpecialMatch) ==
  IF matches = 8 /\ hasSpecialMatch THEN JACKPOT_MULTIPLIER_BPS
  ELSE IF hasSpecialMatch THEN
    Min(FULL_TICKET_PAYOUTS_BPS[Min(matches + 1, 8) + 1],
        SPECIAL_MATCH_MIN_MULTIPLIER_BPS)
  ELSE FULL_TICKET_PAYOUTS_BPS[matches + 1]

\* variant: a special match moves one tier up without the minimum
PayoutMultiplierBpsNoMinimum(matches, hasSpecialMatch) ==
  IF matches = 8 /\ hasSpecialMatch THEN JACKPOT_MULTIPLIER_BPS
  ELSE IF hasSpecialMatch THEN FULL_TICKET_PAYOUTS_BPS[Min(matches + 1, 8) + 1]
  ELSE FULL_TICKET_PAYOUTS_BPS[matches + 1]

PayoutMultiplierBps(matches, hasSpecialMatch) ==
  IF matches = 8 /\ hasSpecialMatch THEN JACKPOT_MULTIPLIER_BPS
  ELSE IF hasSpecialMatch THEN
    Max(FULL_TICKET_PAYOUTS_BPS[Min(matches + 1, 8) + 1],
        SPECIAL_MATCH_MIN_MULTIPLIER_BPS)
  ELSE FULL_TICKET_PAYOUTS_BPS[matches + 1]

\* variant: the flat bonus goes to every currency other than WWXRP
EffectiveRoiAnyCurrency(roiBps, highRoi, bucket, currency) ==
  IF currency = CURRENCY_WWXRP /\ highRoi > roiBps /\ bucket # 0
    THEN roiBps + bonusRoiForBucket(bucket, highRoi - roiBps)
  ELSE IF currency # CURRENCY_WWXRP /\ bucket # 0
    THEN roiBps + bonusRoiForBucket(bucket, ETH_ROI_BONUS_BPS)
  ELSE roiBps

EffectiveRoi(roiBps, highRoi, bucket, currency) ==
  IF currency = CURRENCY_WWXRP /\ highRoi > roiBps /\ bucket # 0
    THEN roiBps + bonusRoiForBucket(bucket, highRoi - roiBps)
  ELSE IF currency = CURRENCY_ETH /\ bucket # 0
    THEN roiBps + bonusRoiForBucket(bucket, ETH_ROI_BONUS_BPS)
  ELSE roiBps

\* (amount * payoutMultiplierBps * effectiveRoi) / (100 * 10000) * evNorm,
\* scaled for the other currencies; rounded down to a step of 1/UNIT
\* variant: the multiplier in basis points is divided by 10000 instead of 100
PayoutBpsForPercent(amount, payoutMultiplierBps, effectiveRoi, playerTicket, currency) ==
  LET wwxrp == MulDivFloor(amount * payoutMultiplierBps,
                           effectiveRoi * (EvNormNum \div (10000 * 10000)),
                           EvNormDen(playerTicket))
  IN  IF currency # CURRENCY_WWXRP
        THEN MulDivFloor(wwxrp, NON_WWXRP_SCALE_NUM, NON_WWXRP_SCALE_DEN)
        ELSE wwxrp

\* variant: the minimum multiplier of a special match applies to every result
PayoutWithMinimum(amount, payoutMultiplierBps, effectiveRoi, playerTicket, currency) ==
  MulDivFloor(amount * Max(payoutMultiplierBps, SPECIAL_MATCH_MIN_MULTIPLIER_BPS),
              effectiveRoi * (EvNormNum \div (100 * 10000)),
              EvNormDen(playerTicket))

Payout(amount, payoutMultiplierBps, effectiveRoi, playerTicket, currency) ==
  LET wwxrp == MulDivFloor(amount * payoutMultiplierBps,
                           effectiveRoi * (EvNormNum \div (100 * 10000)),
                           EvNormDen(playerTicket))
  IN  IF currency # CURRENCY_WWXRP
        THEN MulDivFloor(wwxrp, NON_WWXRP_SCALE_NUM, NON_WWXRP_SCALE_DEN)
        ELSE wwxrp

\* faulty variant: the step without the clamp to MAX_SCORE
NextActivityScoreUnclamped(score) == score + ACTIVITY_STEP

\* Math.min(Number(player.activity_score_bps) + 100, ROI_THRESHOLDS.MAX_SCORE)
NextActivityScore(score) == Min(score + ACTIVITY_STEP, MAX_SCORE)

\* faulty variant: the payout taken off the balance instead of added to it
NewBalanceSignSlip(balance, totalBet, totalPayout) == balance - totalBet - totalPayout

\* balance - totalBet + totalPayout
NewBalance(balance, totalBet, totalPayout) == balance - totalBet + totalPayout

\* player is the row read inside the transaction; draws and roll are the
\* random values generateRandomTicket(false) consumes
spinFullTicket(player, ticket, amount, currency, draws, roll) ==
  IF player.balance_wwxrp < amount THEN NoResult
  ELSE IF ticket.special < 1 \/ ticket.special > 3 THEN NoResult
  ELSE
    LET activityScore == NextActivityScore(player.activity_score_bps)
        roiBps        == calculateRoi(activityScore, currency)
        highRoi       == IF currency = CURRENCY_WWXRP
                           THEN calculateWwxrpHighRoi(activityScore) ELSE 0
        playerTicket  == [traits  |-> [q \in 1..4 |->
                                         [quadrant |-> q - 1,
                                          color    |-> ticket.traits[q].color,
                                          symbol   |-> ticket.traits[q].symbol]],
                          special |-> ticket.special]
        resultTicket  == generateRandomTicket(draws, roll)
        matches       == countMatches(playerTicket, resultTicket)
        hasSpecialMatch == specialsMatch(playerTicket.special, resultTicket.special)
        payoutMultiplierBps == PayoutMultiplierBps(matches, hasSpecialMatch)
        isJackpot     == matches = 8 /\ hasSpecialMatch
        bucket        == bonusBucket(matches, hasSpecialMatch)
        effectiveRoi  == EffectiveRoi(roiBps, highRoi, bucket, currency)
        payout        == Payout(amount, payoutMultiplierBps, effectiveRoi,
                                playerTicket, currency)
        totalBet      == amount
        totalPayout   == payout
        netResult     == totalPayout - totalBet
    IN  [null   |-> FALSE,
         player |-> [player EXCEPT
                       !.balance_wwxrp =
                          NewBalance(player.balance_wwxrp, totalBet, totalPayout),
                       !.activity_score_bps = activityScore],
         spin   |-> [matches             |-> matches,
                     specialMatch        |-> hasSpecialMatch,
                     payoutMultiplierBps |-> payoutMultiplierBps,
                     payout              |-> payout,
                     playerTicket        |-> playerTicket,
                     resultTicket        |-> resultTicket,
                     isJackpot           |-> isJackpot,
                     totalBet            |-> totalBet,
                     totalPayout         |-> totalPayout,
                     netResult           |-> netResult,
                     currency            |-> currency]]

----------------------------------------------------------------------------
(* Bounds and the inputs the model draws from *)

\* spin requests started in one behaviour
MaxSpins == 3

\* connections to the database file, each running one handler at a time
Procs == {"p1", "p2"}

Addresses == {"0xa1", "0xa2"}
\* browser sessions (cookie discord.sid)
Sessions == {"s1", "s2"}
Codes == {"AAAA1111", "BBBB2222"}
NULL == "NULL"

Trait(q, c, s) == [quadrant |-> q, color |-> c, symbol |-> s]

\* a ticket of the four most likely categories, special marker 1
UniformTicket ==
  [traits |-> <<Trait(0, 0, 0), Trait(1, 0, 0), Trait(2, 0, 0), Trait(3, 0, 0)>>,
   special |-> 1]
\* a ticket of rarer categories, special marker 2
RareTicket ==
  [traits |-> <<Trait(0, 7, 4), Trait(1, 0, 0), Trait(2, 0, 0), Trait(3, 0, 0)>>,
   special |-> 2]
\* well-formed traits, special marker 0
NoSpecialTicket == [UniformTicket EXCEPT !.special = 0]
\* three traits only
ShortTicket ==
  [traits |-> <<Trait(0, 0, 0), Trait(1, 0, 0), Trait(2, 0, 0)>>, special |-> 1]
\* a category outside 0..7
BadColorTicket ==
  [UniformTicket EXCEPT !.traits[1] = Trait(0, 8, 0)]

RequestTickets == {UniformTicket, NoSpecialTicket, ShortTicket}
RequestAmounts == {Num(Tokens(600))}
RequestCurrencies == {CURRENCY_WWXRP}

\* <<draws, roll>>: the random values one house ticket is generated from
HouseDraws ==
  { <<<<74, 74, 74, 74, 74, 74, 74, 74>>, 50>>,
    <<<<0, 5, 74, 74, 74, 74, 74, 74>>, 50>> }

----------------------------------------------------------------------------
(* storage.js: the database *)

VARIABLES
  players,   \* committed rows of table players, by eth_address
  spins,     \* committed rows of table spins, in insertion order
  writer,    \* the connection holding the write lock, or NULL
  pc,        \* per connection: where its /api/spin handler stands
  txn,       \* per connection: the locals of its open transaction
  stale,     \* per connection: a commit happened after its snapshot was taken
  resp,      \* per connection: the last response of its handler
  nreq,      \* spin requests started
  agent_registrations,  \* committed rows of table agent_registrations
  calc,      \* the function of game.js under evaluation: its inputs and its result
  session,   \* per browser session: req.session.walletAddress
  limiter,   \* one rateLimit middleware: its map hits and the clock Date.now()
  exports    \* sqlite_sequence of agent_registrations, and what the runs of
             \* export-agent-registrations.js have emitted

vars == <<players, spins, writer, pc, txn, stale, resp, nreq, agent_registrations,
         calc, session, limiter, exports>>

\* what the players' handlers never touch
registry == <<agent_registrations, calc, session, limiter, exports>>

NoTxn == [open |-> FALSE]
NoCalc == [fn |-> "none"]
\* const hits = new Map(), at time 0, nothing admitted yet
\* AUTOINCREMENT has given out no id, the export script has not run
NoExports == [seq |-> 0, runs |-> << >>]
NoLimiter == [now |-> 0, hits |-> << >>, admitted |-> << >>, requests |-> 0]
NoResp == [status |-> 0, error |-> ""]
Ok == [status |-> 200, error |-> ""]
Error(status, message) == [status |-> status, error |-> message]

\* positions at which no transaction is open
Closed == {"Idle", "Committed", "Rejected", "Aborted", "Failed"}
\* positions holding a read snapshot and no write lock
Reading == {"BalanceLoaded", "Computed"}

\* CREATE TABLE players: the column defaults of a row inserted by
\* getOrCreatePlayer
NewPlayer(id, address, referral) ==
  [id                     |-> id,
   eth_address            |-> address,
   discord_id             |-> NULL,
   balance_wwxrp          |-> Tokens(1000),
   activity_score_bps     |-> 0,
   referral_code          |-> referral,
   referrer_code          |-> NULL,
   affiliate_rakeback_bps |-> 0,
   referral_locked        |-> 0,
   nonce                  |-> NULL]

Init ==
  /\ players = << >>
  /\ spins = << >>
  /\ writer = NULL
  /\ pc = [p \in Procs |-> "Idle"]
  /\ txn = [p \in Procs |-> NoTxn]
  /\ stale = [p \in Procs |-> FALSE]
  /\ resp = [p \in Procs |-> NoResp]
  /\ nreq = 0
  /\ agent_registrations = << >>
  /\ calc = NoCalc
  /\ session = [s \in Sessions |-> NULL]
  /\ limiter = NoLimiter
  /\ exports = NoExports

\* a commit by connection p: every other open snapshot is now behind
Outdated(p) == [q \in Procs |-> stale[q] \/ (q # p /\ pc[q] \in Reading)]

UsedCodes == {players[a].referral_code : a \in DOMAIN players}

\* faulty variant: INSERT OR REPLACE, which puts a fresh row in place of an existing one
getOrCreatePlayerReplace(p, address, referral) ==
  /\ pc[p] \in Closed
  /\ writer = NULL
  /\ referral \notin UsedCodes
  /\ players' = IF address \in DOMAIN players
                  THEN [players EXCEPT ![address] =
                          NewPlayer(players[address].id, address, referral)]
                  ELSE players @@ (address :>
                          NewPlayer(Cardinality(DOMAIN players) + 1, address, referral))
  /\ stale' = Outdated(p)
  /\ UNCHANGED <<spins, writer, pc, txn, resp, nreq, registry>>

\* variant: an existing row is given the newly generated referral code
getOrCreatePlayerRegenerates(p, address, referral) ==
  /\ pc[p] \in Closed
  /\ writer = NULL
  /\ referral \notin UsedCodes
  /\ players' = IF address \in DOMAIN players
                  THEN [players EXCEPT ![address].referral_code = referral]
                  ELSE players @@ (address :>
                          NewPlayer(Cardinality(DOMAIN players) + 1, address, referral))
  /\ stale' = Outdated(p)
  /\ UNCHANGED <<spins, writer, pc, txn, resp, nreq, registry>>

\* getOrCreatePlayer(address), reached through POST /api/wallet/nonce
getOrCreatePlayer(p, address, referral) ==
  /\ pc[p] \in Closed
  /\ IF address \in DOMAIN players
       THEN UNCHANGED <<players, stale>>
       ELSE /\ writer = NULL
            /\ referral \notin UsedCodes
            /\ players' = players @@
                 (address :> NewPlayer(Cardinality(DOMAIN players) + 1, address, referral))
            /\ stale' = Outdated(p)
  /\ UNCHANGED <<spins, writer, pc, txn, resp, nreq, registry>>

----------------------------------------------------------------------------
(* POST /api/spin and storage.js: atomicSpin *)

isValidTrait(trait) ==
  /\ trait.quadrant >= 0 /\ trait.quadrant < 4
  /\ trait.color >= 0 /\ trait.color < 8
  /\ trait.symbol >= 0 /\ trait.symbol < 8

isValidTicket(ticket) ==
  /\ Len(ticket.traits) = 4
  /\ \A q \in 1..Len(ticket.traits) : isValidTrait(ticket.traits[q])

MIN_BET_WWXRP == 1

\* the handler's checks before atomicSpin is called: the error it answers
\* with, or "" when the request goes on
HandlerError(ticket, amount, currency) ==
  IF ~isValidTicket(ticket) THEN "Invalid ticket"
  ELSE IF ~IsFinite(amount) \/ amount.value < Tokens(MIN_BET_WWXRP) \/ ~IsInteger(amount)
    THEN "Minimum bet is 1 (whole numbers only)"
  ELSE IF currency # 3 THEN "Unsupported currency"
  ELSE ""

Finish(p, position, response) ==
  /\ pc' = [pc EXCEPT ![p] = position]
  /\ txn' = [txn EXCEPT ![p] = NoTxn]
  /\ resp' = [resp EXCEPT ![p] = response]

\* The handler validates the request, atomicSpin opens the transaction and
\* SELECTs the player's row: the read snapshot of this transaction.
SpinRequest(p, address, ticket, amount, currency) ==
  /\ pc[p] \in Closed
  /\ nreq < MaxSpins
  /\ nreq' = nreq + 1
  /\ stale' = [stale EXCEPT ![p] = FALSE]
  /\ IF HandlerError(ticket, amount, currency) # ""
       THEN Finish(p, "Rejected", Error(400, HandlerError(ticket, amount, currency)))
     ELSE IF address \notin DOMAIN players
       THEN Finish(p, "Rejected", Error(400, "Player not found"))
     ELSE /\ pc' = [pc EXCEPT ![p] = "BalanceLoaded"]
          /\ txn' = [txn EXCEPT ![p] =
                       [open     |-> TRUE,
                        address  |-> address,
                        ticket   |-> ticket,
                        amount   |-> amount.value,
                        currency |-> currency,
                        player   |-> players[address]]]
          /\ UNCHANGED resp
  /\ UNCHANGED <<players, spins, writer, registry>>

\* faulty variant: a refused wager still counts as activity of the player
ComputeSpinCountsRefusal(p, draws, roll) ==
  /\ pc[p] = "BalanceLoaded"
  /\ LET result == spinFullTicket(txn[p].player, txn[p].ticket, txn[p].amount,
                                  txn[p].currency, draws, roll)
     IN  IF result = NoResult
           THEN /\ Finish(p, "Rejected", Error(400, "Insufficient balance"))
                /\ players' = [players EXCEPT ![txn[p].address].activity_score_bps =
                                 NextActivityScore(@)]
           ELSE /\ pc' = [pc EXCEPT ![p] = "Computed"]
                /\ txn' = [txn EXCEPT ![p] = [txn[p] EXCEPT !.open = TRUE] @@
                                              [result |-> result]]
                /\ UNCHANGED <<resp, players>>
  /\ UNCHANGED <<spins, writer, stale, nreq, registry>>

\* spinFn(player): spinFullTicket on the row read; null ends the transaction
\* with 'Insufficient balance'
ComputeSpin(p, draws, roll) ==
  /\ pc[p] = "BalanceLoaded"
  /\ LET result == spinFullTicket(txn[p].player, txn[p].ticket, txn[p].amount,
                                  txn[p].currency, draws, roll)
     IN  IF result = NoResult
           THEN Finish(p, "Rejected", Error(400, "Insufficient balance"))
           ELSE /\ pc' = [pc EXCEPT ![p] = "Computed"]
                /\ txn' = [txn EXCEPT ![p] = [txn[p] EXCEPT !.open = TRUE] @@
                                              [result |-> result]]
                /\ UNCHANGED resp
  /\ UNCHANGED <<players, spins, writer, stale, nreq, registry>>

\* rows the guarded UPDATE changes: WHERE eth_address = ? AND balance_wwxrp >= ?
UpdateChanges(address, totalBet) ==
  IF address \in DOMAIN players /\ players[address].balance_wwxrp >= totalBet
    THEN 1 ELSE 0

\* The guarded UPDATE: the transaction's first write.  It takes the write
\* lock, which needs the snapshot to be the newest committed state.
GuardedUpdate(p) ==
  /\ pc[p] = "Computed"
  /\ ~stale[p]
  /\ writer = NULL
  /\ IF UpdateChanges(txn[p].address, txn[p].result.spin.totalBet) = 0
       THEN /\ Finish(p, "Aborted", Error(400, "Balance changed, try again"))
            /\ UNCHANGED writer
       ELSE /\ writer' = p
            /\ pc' = [pc EXCEPT ![p] = "Updated"]
            /\ txn' = [txn EXCEPT ![p] = txn[p] @@
                         [upd |-> [balance_wwxrp |-> txn[p].result.player.balance_wwxrp,
                                   activity_score_bps |->
                                     txn[p].result.player.activity_score_bps]]]
            /\ UNCHANGED resp
  /\ UNCHANGED <<players, spins, stale, nreq, registry>>

\* The UPDATE cannot take the write lock: another connection committed after
\* the snapshot was read (SQLITE_BUSY_SNAPSHOT) or holds the lock beyond the
\* busy timeout (SQLITE_BUSY).  The exception rolls the transaction back and
\* leaves atomicSpin; express answers 500.
UpdateBusy(p) ==
  /\ pc[p] = "Computed"
  /\ stale[p] \/ writer \notin {NULL, p}
  /\ Finish(p, "Failed", Error(500, "SQLITE_BUSY"))
  /\ UNCHANGED <<players, spins, writer, stale, nreq, registry>>

\* faulty variant: the payout and net parameters of the INSERT in each other's place
SpinRowSwapped(player, spin) ==
  [player_id     |-> player.id,
   bet_amount    |-> spin.totalBet,
   payout        |-> spin.netResult,
   net           |-> spin.totalPayout,
   matches       |-> spin.matches,
   player_ticket |-> spin.playerTicket,
   house_ticket  |-> spin.resultTicket]

\* the row INSERT INTO spins writes
SpinRow(player, spin) ==
  [player_id     |-> player.id,
   bet_amount    |-> spin.totalBet,
   payout        |-> spin.totalPayout,
   net           |-> spin.netResult,
   matches       |-> spin.matches,
   player_ticket |-> spin.playerTicket,
   house_ticket  |-> spin.resultTicket]

InsertSpin(p) ==
  /\ pc[p] = "Updated"
  /\ pc' = [pc EXCEPT ![p] = "Inserted"]
  /\ txn' = [txn EXCEPT ![p] = txn[p] @@
               [ins |-> SpinRow(txn[p].player, txn[p].result.spin)]]
  /\ UNCHANGED <<players, spins, writer, stale, resp, nreq, registry>>

\* faulty variant: the statements run outside a transaction, so the UPDATE that
\* preceded the failing INSERT stays
RolledBackKeepsUpdate(p) ==
  /\ players' = [players EXCEPT
                   ![txn[p].address].balance_wwxrp = txn[p].upd.balance_wwxrp,
                   ![txn[p].address].activity_score_bps = txn[p].upd.activity_score_bps]
  /\ UNCHANGED spins

\* what a transaction that ends by an exception leaves in the database:
\* better-sqlite3 rolls it back, so the committed rows stay
RolledBack(p) ==
  /\ UNCHANGED <<players, spins>>

\* the INSERT throws (disk full, I/O error): the transaction is rolled back
InsertFail(p) ==
  /\ pc[p] = "Updated"
  /\ RolledBack(p)
  /\ writer' = NULL
  /\ Finish(p, "Failed", Error(500, "SQLITE_ERROR"))
  /\ UNCHANGED <<stale, nreq, registry>>

\* faulty variant: one ledger row per player, the INSERT replacing the player's last
PublishedUpsert(p) ==
  /\ players' = [players EXCEPT
                   ![txn[p].address].balance_wwxrp = txn[p].upd.balance_wwxrp,
                   ![txn[p].address].activity_score_bps = txn[p].upd.activity_score_bps]
  /\ spins' = Append(SelectSeq(spins, LAMBDA r : r.player_id # txn[p].ins.player_id),
                     txn[p].ins)

\* what COMMIT publishes: the transaction's UPDATE and its INSERT
Published(p) ==
  /\ players' = [players EXCEPT
                   ![txn[p].address].balance_wwxrp = txn[p].upd.balance_wwxrp,
                   ![txn[p].address].activity_score_bps = txn[p].upd.activity_score_bps]
  /\ spins' = Append(spins, txn[p].ins)

\* the closing SELECT, the return of { ok: true, ... } and COMMIT
CommitSpin(p) ==
  /\ pc[p] = "Inserted"
  /\ Published(p)
  /\ writer' = NULL
  /\ stale' = Outdated(p)
  /\ Finish(p, "Committed", Ok)
  /\ UNCHANGED <<nreq, registry>>

Settle(p) ==
  \/ \E a \in Addresses, t \in RequestTickets, m \in RequestAmounts,
        c \in RequestCurrencies : SpinRequest(p, a, t, m, c)
  \/ \E d \in HouseDraws : ComputeSpin(p, d[1], d[2])
  \/ GuardedUpdate(p)
  \/ UpdateBusy(p)
  \/ InsertSpin(p)
  \/ InsertFail(p)
  \/ CommitSpin(p)

Next ==
  \E p \in Procs :
    \/ \E a \in Addresses, r \in Codes : getOrCreatePlayer(p, a, r)
    \/ Settle(p)

Spec == Init /\ [][Next]_vars

----------------------------------------------------------------------------
(* storage.js: the other operations on table players.  Each runs its        *)
(* statements in one synchronous call of a connection that has no           *)
(* transaction open; a statement that writes needs the write lock.          *)

\* one statement of connection p wrote the row of address
WriteRow(p, address, row) ==
  /\ writer = NULL
  /\ players' = [players EXCEPT ![address] = row]
  /\ stale' = Outdated(p)

NoWrite == UNCHANGED <<players, stale>>

setPlayerNonce(p, address, nonce) ==
  /\ pc[p] \in Closed
  /\ IF address \in DOMAIN players
       THEN WriteRow(p, address, [players[address] EXCEPT !.nonce = nonce])
       ELSE NoWrite
  /\ UNCHANGED <<spins, writer, pc, txn, resp, nreq, registry>>

clearPlayerNonce(p, address) ==
  /\ pc[p] \in Closed
  /\ IF address \in DOMAIN players
       THEN WriteRow(p, address, [players[address] EXCEPT !.nonce = NULL])
       ELSE NoWrite
  /\ UNCHANGED <<spins, writer, pc, txn, resp, nreq, registry>>

\* user.id stands for the three discord columns, which are written together
updatePlayerDiscord(p, address, user) ==
  /\ pc[p] \in Closed
  /\ IF address \in DOMAIN players
       THEN WriteRow(p, address, [players[address] EXCEPT !.discord_id = user])
       ELSE NoWrite
  /\ UNCHANGED <<spins, writer, pc, txn, resp, nreq, registry>>

\* code.trim().toUpperCase() on the codes the model submits
Normalized(code) ==
  IF code = " aaaa1111" THEN "AAAA1111"
  ELSE IF code = "vip" THEN "VIP"
  ELSE IF code = "  " THEN ""
  ELSE code

\* /^[A-Z0-9]{3,12}$/ on the normalized codes the model submits
IsAffiliateCode(code) == code \in Codes \cup {"VIP"}

\* getPlayerByReferralCode(code): the addresses whose row carries the code
\* (referral_code is UNIQUE: at most one)
ByReferralCode(code) == {a \in DOMAIN players : players[a].referral_code = code}

setReferrerCode(p, address, referrerCode) ==
  /\ pc[p] \in Closed
  /\ IF \/ referrerCode = ""
        \/ Normalized(referrerCode) = ""
        \/ ByReferralCode(Normalized(referrerCode)) = {}
        \/ address \in ByReferralCode(Normalized(referrerCode))
        \/ address \notin DOMAIN players
        \/ players[address].referrer_code # NULL
       THEN NoWrite
       ELSE WriteRow(p, address,
              [players[address] EXCEPT !.referrer_code = Normalized(referrerCode)])
  /\ UNCHANGED <<spins, writer, pc, txn, resp, nreq, registry>>

\* referral is the code generateReferralCode() yields in the attempt that
\* succeeds; a code another row carries makes the UPDATE throw and the loop
\* draw again
ensureReferralCode(p, address, referral) ==
  /\ pc[p] \in Closed
  /\ IF \/ address \notin DOMAIN players
        \/ players[address].referral_code \notin {NULL, ""}
       THEN NoWrite
       ELSE /\ referral \notin UsedCodes
            /\ WriteRow(p, address, [players[address] EXCEPT !.referral_code = referral])
  /\ UNCHANGED <<spins, writer, pc, txn, resp, nreq, registry>>

AllowedBps == {0, 500, 1000, 1500, 2000, 2500}

\* the error setAffiliateConfig returns, or "" when it writes
AffiliateError(address, code, rakebackBps) ==
  IF address \notin DOMAIN players THEN "Player not found"
  ELSE IF Normalized(code) = "" \/ ~IsAffiliateCode(Normalized(code))
    THEN "Affiliate code must be 3-12 letters or numbers"
  ELSE IF rakebackBps \notin AllowedBps THEN "Invalid rakeback selection"
  ELSE IF ByReferralCode(Normalized(code)) \ {address} # {}
    THEN "Affiliate code already taken"
  ELSE IF players[address].referral_locked # 0
    THEN "Affiliate settings are already locked"
  ELSE ""

setAffiliateConfig(p, address, code, rakebackBps) ==
  /\ pc[p] \in Closed
  /\ IF AffiliateError(address, code, rakebackBps) # ""
       THEN NoWrite
       ELSE WriteRow(p, address,
              [players[address] EXCEPT !.referral_code = Normalized(code),
                                       !.affiliate_rakeback_bps = rakebackBps,
                                       !.referral_locked = 1])
  /\ UNCHANGED <<spins, writer, pc, txn, resp, nreq, registry>>

----------------------------------------------------------------------------
(* storage.js: registerAgent *)

MAX_AGENT_REGISTRATIONS == 400

AgentAddresses == {"0xb1", "0xb2"}
AgentCodes == {"AGENT1", "AGENT2"}
Pledges == {0, 1}

\* positions of the rows with pledge_eth = 0
NoPledge == {i \in DOMAIN agent_registrations : agent_registrations[i].pledge_eth = 0}

\* _agentRegNewestNoPledge: ORDER BY created_at DESC LIMIT 1; rows are kept in
\* insertion order
NewestNoPledge == CHOOSE i \in NoPledge : \A j \in NoPledge : j <= i

RemoveAt(rows, i) == SubSeq(rows, 1, i - 1) \o SubSeq(rows, i + 1, Len(rows))

\* the UNIQUE constraints on address and on code
AgentConflict(rows, address, code) ==
  \E i \in DOMAIN rows : rows[i].address = address \/ rows[i].code = code

\* the table after _agentRegInsert.run, which throws on a UNIQUE conflict
AgentInserted(rows, address, code, pledgeEth) ==
  IF AgentConflict(rows, address, code) THEN rows
  ELSE Append(rows, [id |-> exports.seq + 1, address |-> address, code |-> code,
                     pledge_eth |-> pledgeEth, exported |-> 0])

\* id INTEGER PRIMARY KEY AUTOINCREMENT: an id that was given out is not
\* given out again, also after its row was deleted
Sequenced(rows) ==
  IF \E i \in DOMAIN rows : rows[i].id = exports.seq + 1
    THEN [exports EXCEPT !.seq = @ + 1]
    ELSE exports

\* variant: count > MAX_AGENT_REGISTRATIONS in place of >=
registerAgentOffByOne(p, address, code, pledgeEth) ==
  /\ pc[p] \in Closed
  /\ writer = NULL
  /\ agent_registrations' =
       IF Len(agent_registrations) > MAX_AGENT_REGISTRATIONS
         THEN IF pledgeEth > 0 /\ NoPledge # {}
                THEN AgentInserted(RemoveAt(agent_registrations, NewestNoPledge),
                                   address, code, pledgeEth)
                ELSE agent_registrations
         ELSE AgentInserted(agent_registrations, address, code, pledgeEth)
  /\ stale' = IF agent_registrations' # agent_registrations THEN Outdated(p) ELSE stale
  /\ UNCHANGED <<players, spins, writer, pc, txn, resp, nreq, calc, session, limiter>>
  /\ exports' = Sequenced(agent_registrations')

registerAgent(p, address, code, pledgeEth) ==
  /\ pc[p] \in Closed
  /\ writer = NULL
  /\ agent_registrations' =
       IF Len(agent_registrations) >= MAX_AGENT_REGISTRATIONS
         THEN IF pledgeEth > 0 /\ NoPledge # {}
                THEN AgentInserted(RemoveAt(agent_registrations, NewestNoPledge),
                                   address, code, pledgeEth)
                ELSE agent_registrations
         ELSE AgentInserted(agent_registrations, address, code, pledgeEth)
  /\ stale' = IF agent_registrations' # agent_registrations THEN Outdated(p) ELSE stale
  /\ UNCHANGED <<players, spins, writer, pc, txn, resp, nreq, calc, session, limiter>>
  /\ exports' = Sequenced(agent_registrations')

----------------------------------------------------------------------------
(* The store under all of its operations: connection p2 runs them while   *)
(* connection p1 settles wagers                                            *)

MaxStoreSpins == 2

Nonces == {"n1"}
DiscordUsers == {"d1"}
ReferrerInputs == {"", " aaaa1111", "BBBB2222", "ZZZZ9999"}
AffiliateInputs == {"vip", "x"}
RakebackInputs == {500, 123}

\* the player the operations work on; the other one is there to refer it
Subject == "0xa1"

StoreOp(p) ==
  \/ \E n \in Nonces : setPlayerNonce(p, Subject, n)
  \/ clearPlayerNonce(p, Subject)
  \/ \E u \in DiscordUsers : updatePlayerDiscord(p, Subject, u)
  \/ \E c \in ReferrerInputs : setReferrerCode(p, Subject, c)
  \/ \E r \in Codes : ensureReferralCode(p, Subject, r)
  \/ \E c \in AffiliateInputs, b \in RakebackInputs : setAffiliateConfig(p, Subject, c, b)
  \/ \E a \in AgentAddresses, e \in Pledges : registerAgent(p, a, "AGENT1", e)

StoreSettle(p) ==
  \/ /\ nreq < MaxStoreSpins
     /\ SpinRequest(p, Subject, UniformTicket, Num(Tokens(600)), CURRENCY_WWXRP)
  \/ \E d \in HouseDraws : ComputeSpin(p, d[1], d[2])
  \/ GuardedUpdate(p)
  \/ UpdateBusy(p)
  \/ InsertSpin(p)
  \/ InsertFail(p)
  \/ CommitSpin(p)

NextStore ==
  \/ \E a \in Addresses, r \in Codes : getOrCreatePlayer("p2", a, r)
  \/ StoreOp("p2")
  \/ StoreSettle("p1")

SpecStore == Init /\ [][NextStore]_vars

----------------------------------------------------------------------------
(* The settlement of players close to the activity cap.  The database is   *)
(* one left by earlier runs of the server: a player who has settled 353 or *)
(* 354 wagers; spins holds the rows appended from here on.                 *)

VeteranScores == {35300, 35400}
Veteran == "0xa1"

InitVeteran ==
  /\ \E s \in VeteranScores :
       players = (Veteran :> [NewPlayer(1, Veteran, "AAAA1111")
                                EXCEPT !.activity_score_bps = s])
  /\ spins = << >>
  /\ writer = NULL
  /\ pc = [p \in Procs |-> "Idle"]
  /\ txn = [p \in Procs |-> NoTxn]
  /\ stale = [p \in Procs |-> FALSE]
  /\ resp = [p \in Procs |-> NoResp]
  /\ nreq = 0
  /\ agent_registrations = << >>
  /\ calc = NoCalc
  /\ session = [s \in Sessions |-> NULL]
  /\ limiter = NoLimiter
  /\ exports = NoExports

VeteranAmounts == {Num(Tokens(100)), Num(Tokens(600))}

NextVeteran ==
  \E p \in Procs :
    \/ \E m \in VeteranAmounts :
         SpinRequest(p, Veteran, UniformTicket, m, CURRENCY_WWXRP)
    \/ \E d \in HouseDraws : ComputeSpin(p, d[1], d[2])
    \/ GuardedUpdate(p)
    \/ UpdateBusy(p)
    \/ InsertSpin(p)
    \/ InsertFail(p)
    \/ CommitSpin(p)

SpecVeteran == InitVeteran /\ [][NextVeteran]_vars

----------------------------------------------------------------------------
(* Properties of the settlement engine.                                     *)

\* the row transaction p read is no longer the committed row
Overtaken(p) ==
  /\ pc[p] \in Reading
  /\ players[txn[p].address] # txn[p].player

\* the step of connection p that commits its settlement
Commits(p) == pc[p] = "Inserted" /\ pc'[p] = "Committed"

\* the ledger rows of the player with this id
RowsOf(id) == {i \in DOMAIN spins : spins[i].player_id = id}

\* C1: of two interleaved settlements of one player, the one that was
\* overtaken either runs on the committed row (it is serialized after the
\* first) or ends with 'Balance changed, try again'; and a commit never
\* loses a committed stake or payout: it writes the committed balance minus
\* its stake plus its payout.
C1_SerializedOrRetry ==
  [][\A p \in Procs :
       /\ (pc[p] = "Computed" /\ Overtaken(p) /\ pc'[p] # "Computed")
            => \/ /\ pc'[p] = "Aborted"
                  /\ resp'[p] = Error(400, "Balance changed, try again")
               \/ /\ pc'[p] = "Updated"
                  /\ txn'[p].upd.balance_wwxrp =
                       NewBalance(players[txn[p].address].balance_wwxrp,
                                  txn[p].result.spin.totalBet,
                                  txn[p].result.spin.totalPayout)
       /\ Commits(p)
            => players'[txn[p].address].balance_wwxrp =
                 NewBalance(players[txn[p].address].balance_wwxrp,
                            txn[p].result.spin.totalBet,
                            txn[p].result.spin.totalPayout)]_vars

\* C2: whenever the stored balance at the guarded UPDATE differs from the
\* balance the transaction read, the UPDATE changes no row and the
\* transaction ends Aborted with 'Balance changed, try again'.
C2_ChangedBalanceAborts ==
  [][\A p \in Procs :
       ( /\ pc[p] = "Computed"
         /\ players[txn[p].address].balance_wwxrp # txn[p].player.balance_wwxrp
         /\ pc'[p] # "Computed" )
         => /\ pc'[p] = "Aborted"
            /\ resp'[p] = Error(400, "Balance changed, try again")]_vars

\* C3: the update of balance and score and the ledger row are committed
\* together or not at all: every player below the cap has one ledger row
\* for each step of 100 of the activity score, also after a transaction
\* whose INSERT failed.
C3_UpdateAndRowTogether ==
  \A a \in DOMAIN players :
    players[a].activity_score_bps < MAX_SCORE
      => Cardinality(RowsOf(players[a].id)) * ACTIVITY_STEP
           = players[a].activity_score_bps

\* an INSERT failed after its UPDATE, next to settlements that committed
C3_Witness ==
  \E p \in Procs :
    /\ pc[p] = "Failed"
    /\ resp[p] = Error(500, "SQLITE_ERROR")
    /\ Len(spins) >= 1

\* C4: a committed settlement of stake s with payout p leaves balance
\* b - s + p and score min(a + 100, 35500), b and a being the committed
\* values before, and appends exactly one ledger row, with bet_amount = s,
\* payout = p and net = p - s.
C4_CommitEffect ==
  [][\A p \in Procs :
       Commits(p) =>
         LET a   == txn[p].address
             s   == txn[p].amount
             pay == txn[p].result.spin.payout
         IN  /\ pay >= 0
             /\ players'[a].balance_wwxrp = players[a].balance_wwxrp - s + pay
             /\ players'[a].activity_score_bps =
                  Min(players[a].activity_score_bps + 100, 35500)
             /\ Len(spins') = Len(spins) + 1
             /\ SubSeq(spins', 1, Len(spins)) = spins
             /\ spins'[Len(spins')].player_id = players[a].id
             /\ spins'[Len(spins')].bet_amount = s
             /\ spins'[Len(spins')].payout = pay
             /\ spins'[Len(spins')].net = pay - s]_vars

\* a winning and a losing settlement have been committed
C4_Witness ==
  /\ \E i \in DOMAIN spins : spins[i].payout > 0
  /\ \E i \in DOMAIN spins : spins[i].payout = 0
  /\ \E p \in Procs : pc[p] = "Committed"

\* C5: a settlement that ends Rejected or Aborted has no side effects: the
\* step that ends it leaves table players and the ledger as they were.
C5_NoSideEffects ==
  [][\A p \in Procs :
       (pc'[p] \in {"Rejected", "Aborted"} /\ (pc'[p] # pc[p] \/ nreq' # nreq))
         => players' = players /\ spins' = spins]_vars

\* a wager was refused for a balance below the stake
C5_Witness ==
  \E p \in Procs, a \in DOMAIN players :
    /\ pc[p] = "Rejected"
    /\ resp[p] = Error(400, "Insufficient balance")
    /\ players[a].balance_wwxrp < Tokens(600)

\* C6: the kinds of failure are told apart: 'Insufficient balance' is the
\* answer only when the balance read is below the stake, never for a ticket
\* that fails validation (a special outside 1..3 included).
C6_FailureKinds ==
  [][\A p \in Procs :
       (pc[p] = "BalanceLoaded" /\ resp'[p] = Error(400, "Insufficient balance")
          /\ pc'[p] = "Rejected")
         => /\ txn[p].player.balance_wwxrp < txn[p].amount
            /\ txn[p].ticket.special \in 1..3]_vars

\* C7: the balance of every player is non-negative in every reachable state.
C7_BalanceNonNegative ==
  \A a \in DOMAIN players : players[a].balance_wwxrp >= 0

\* a player has lost a stake and another has won one
C7_Witness ==
  /\ \E a \in DOMAIN players : players[a].balance_wwxrp = Tokens(400)
  /\ \E a \in DOMAIN players : players[a].balance_wwxrp > Tokens(1000)

\* C8: the activity score stays in 0..35500, never decreases, and every
\* commit raises it by 100, capped at 35500.
C8_ActivityScore ==
  /\ [](\A a \in DOMAIN players : players[a].activity_score_bps \in 0..MAX_SCORE)
  /\ [][\A a \in DOMAIN players :
          /\ a \in DOMAIN players'
          /\ players'[a].activity_score_bps >= players[a].activity_score_bps
          /\ (\E p \in Procs : Commits(p) /\ txn[p].address = a)
               => players'[a].activity_score_bps =
                    Min(players[a].activity_score_bps + 100, MAX_SCORE)
          /\ (\A p \in Procs : ~(Commits(p) /\ txn[p].address = a))
               => players'[a].activity_score_bps = players[a].activity_score_bps]_vars

\* a settlement was committed at the cap
C8_Witness ==
  /\ players[Veteran].activity_score_bps = MAX_SCORE
  /\ Len(spins) = 3

\* C9: the ledger is append-only: every step leaves the rows written so
\* far in place and unchanged.
C9_AppendOnly ==
  [][/\ Len(spins') >= Len(spins)
     /\ SubSeq(spins', 1, Len(spins)) = spins]_vars

\* one player has two rows in the ledger
C9_Witness ==
  \E i, j \in DOMAIN spins : i < j /\ spins[i].player_id = spins[j].player_id

\* C10: balance and activity score are written by settlement only: every
\* step that is not the commit of a settlement (getOrCreatePlayer of an
\* existing player, setPlayerNonce, clearPlayerNonce, updatePlayerDiscord,
\* setReferrerCode, ensureReferralCode, setAffiliateConfig, registerAgent)
\* leaves both as they were.
C10_OnlySettlementWrites ==
  [][(\A p \in Procs : ~Commits(p))
       => \A a \in DOMAIN players :
            /\ a \in DOMAIN players'
            /\ players'[a].balance_wwxrp = players[a].balance_wwxrp
            /\ players'[a].activity_score_bps = players[a].activity_score_bps]_vars

\* the other operations have written the row of a player who has settled
C10_Witness ==
  /\ Subject \in DOMAIN players
  /\ players[Subject].balance_wwxrp # Tokens(1000)
  /\ players[Subject].activity_score_bps > 0
  /\ players[Subject].nonce # NULL
  /\ players[Subject].discord_id # NULL
  /\ players[Subject].referrer_code # NULL
  /\ players[Subject].referral_locked = 1
  /\ Len(agent_registrations) > 0

\* no other connection has a settlement of the same player in progress, and
\* the row transaction p read is still the committed row
AloneOnPlayer(p) ==
  /\ players[txn[p].address] = txn[p].player
  /\ \A q \in Procs \ {p} : txn[q].open => txn[q].address # txn[p].address

\* C11: settlements of different players are independent: a commit for one
\* player leaves every other player's row and ledger rows as they were, and
\* a settlement that no settlement of the same player interferes with goes
\* the way it goes alone whatever the settlements of other players do: its
\* guarded UPDATE runs and writes the balance read minus stake plus payout.
C11_Independent ==
  [][\A p \in Procs :
       /\ Commits(p)
            => /\ \A b \in DOMAIN players \ {txn[p].address} :
                    players'[b] = players[b]
               /\ SubSeq(spins', 1, Len(spins)) = spins
               /\ spins'[Len(spins')].player_id = players[txn[p].address].id
       /\ (pc[p] = "Computed" /\ AloneOnPlayer(p) /\ pc'[p] # "Computed")
            => /\ pc'[p] = "Updated"
               /\ txn'[p].upd.balance_wwxrp =
                    NewBalance(txn[p].player.balance_wwxrp,
                               txn[p].result.spin.totalBet,
                               txn[p].result.spin.totalPayout)]_vars

----------------------------------------------------------------------------
(* Progress.  The statements of atomicSpin run in one synchronous call of   *)
(* better-sqlite3, with no await between them: a transaction that has begun *)
(* takes its next step.                                                     *)

\* positions inside a transaction
InFlight == {"BalanceLoaded", "Computed", "Updated", "Inserted"}

Fairness(p) ==
  /\ WF_vars(\E d \in HouseDraws : ComputeSpin(p, d[1], d[2]))
  /\ WF_vars(GuardedUpdate(p) \/ UpdateBusy(p))
  /\ WF_vars(InsertSpin(p) \/ InsertFail(p))
  /\ WF_vars(CommitSpin(p))

\* spin requests started in one behaviour of SpecLive
MaxLiveSpins == 2

NextLive ==
  \E p \in Procs :
    \/ getOrCreatePlayer(p, Subject, "AAAA1111")
    \/ /\ nreq < MaxLiveSpins
       /\ \E t \in {UniformTicket, NoSpecialTicket} :
            SpinRequest(p, Subject, t, Num(Tokens(600)), CURRENCY_WWXRP)
    \/ \E d \in HouseDraws : ComputeSpin(p, d[1], d[2])
    \/ GuardedUpdate(p)
    \/ UpdateBusy(p)
    \/ InsertSpin(p)
    \/ InsertFail(p)
    \/ CommitSpin(p)

SpecLive == Init /\ [][NextLive]_vars /\ \A p \in Procs : Fairness(p)

\* C12: every settlement attempt that starts eventually ends, and it ends in
\* one of Committed, Rejected and Aborted: it does not stay in BalanceLoaded
\* or Computed, and it leaves the transaction for no other position.
C12_EndsInTerminalState ==
  /\ \A p \in Procs :
       (pc[p] \in InFlight) ~> (pc[p] \in {"Committed", "Rejected", "Aborted"})
  /\ [][\A p \in Procs :
          (pc[p] \in InFlight /\ pc'[p] \notin InFlight)
            => pc'[p] \in {"Committed", "Rejected", "Aborted"}]_vars

----------------------------------------------------------------------------
(* src/index.js: POST /api/spin without atomicSpin.  The handler reads the  *)
(* player, settles with spinFullTicket, and writes the result with          *)
(* updatePlayerState and recordSpin, each statement committing on its own.  *)

\* isValidTicket of src/index.js: it checks the special marker as well
LegacyIsValidTicket(ticket) ==
  /\ Len(ticket.traits) = 4
  /\ ~(ticket.special < 1 \/ ticket.special > 3)
  /\ \A q \in 1..Len(ticket.traits) : isValidTrait(ticket.traits[q])

\* the checks of the handler after the player was found
LegacyHandlerError(ticket, amount, currency) ==
  IF ~LegacyIsValidTicket(ticket) THEN "Invalid ticket"
  ELSE IF ~IsFinite(amount) \/ amount.value <= 0 THEN "Invalid amount"
  ELSE IF currency # 3 THEN "Unsupported currency"
  ELSE ""

\* getPlayerByAddress and the validation of the request
LegacyRequest(p, address, ticket, amount, currency) ==
  /\ pc[p] \in Closed
  /\ nreq < MaxSpins
  /\ nreq' = nreq + 1
  /\ IF address \notin DOMAIN players
       THEN Finish(p, "Rejected", Error(404, "Player not found"))
     ELSE IF LegacyHandlerError(ticket, amount, currency) # ""
       THEN Finish(p, "Rejected", Error(400, LegacyHandlerError(ticket, amount, currency)))
     ELSE /\ pc' = [pc EXCEPT ![p] = "LegacyLoaded"]
          /\ txn' = [txn EXCEPT ![p] =
                       [open     |-> FALSE,
                        address  |-> address,
                        ticket   |-> ticket,
                        amount   |-> amount.value,
                        currency |-> currency,
                        player   |-> players[address]]]
          /\ UNCHANGED resp
  /\ UNCHANGED <<players, spins, writer, stale, registry>>

\* spinFullTicket on the row read; null is answered 'Insufficient balance'
LegacyCompute(p, draws, roll) ==
  /\ pc[p] = "LegacyLoaded"
  /\ LET result == spinFullTicket(txn[p].player, txn[p].ticket, txn[p].amount,
                                  txn[p].currency, draws, roll)
     IN  IF result = NoResult
           THEN Finish(p, "Rejected", Error(400, "Insufficient balance"))
           ELSE /\ pc' = [pc EXCEPT ![p] = "LegacyComputed"]
                /\ txn' = [txn EXCEPT ![p] = txn[p] @@ [result |-> result]]
                /\ UNCHANGED resp
  /\ UNCHANGED <<players, spins, writer, stale, nreq, registry>>

\* updatePlayerState: UPDATE players SET balance_wwxrp = ?, activity_score_bps = ?
LegacyUpdate(p) ==
  /\ pc[p] = "LegacyComputed"
  /\ writer = NULL
  /\ players' = [players EXCEPT
                   ![txn[p].address].balance_wwxrp =
                      txn[p].result.player.balance_wwxrp,
                   ![txn[p].address].activity_score_bps =
                      txn[p].result.player.activity_score_bps]
  /\ stale' = Outdated(p)
  /\ pc' = [pc EXCEPT ![p] = "LegacyUpdated"]
  /\ UNCHANGED <<spins, writer, txn, resp, nreq, registry>>

\* recordSpin(updated.id, result.spin) and the response
LegacyRecord(p) ==
  /\ pc[p] = "LegacyUpdated"
  /\ writer = NULL
  /\ spins' = Append(spins, SpinRow(players[txn[p].address], txn[p].result.spin))
  /\ stale' = Outdated(p)
  /\ Finish(p, "Committed", Ok)
  /\ UNCHANGED <<players, writer, nreq, registry>>

----------------------------------------------------------------------------
(* Stakes.  Both versions of the handler take requests whose amount is any  *)
(* JavaScript number.                                                       *)

\* spin requests started in one behaviour of SpecStake
MaxStakeSpins == 2

\* not a number, zero, negative, one and a fraction of a token, and 600
StakeInputs ==
  {NaN, Num(0), Num(0 - Tokens(5)), Num(Tokens(1) + 1), Num(Tokens(600))}

NextStake ==
  \E p \in Procs :
    \/ getOrCreatePlayer(p, Subject, "AAAA1111")
    \/ /\ nreq < MaxStakeSpins
       /\ \E m \in StakeInputs :
            SpinRequest(p, Subject, UniformTicket, m, CURRENCY_WWXRP)
    \/ /\ nreq < MaxStakeSpins
       /\ \E m \in StakeInputs :
            LegacyRequest(p, Subject, UniformTicket, m, CURRENCY_WWXRP)
    \/ \E d \in HouseDraws : ComputeSpin(p, d[1], d[2])
    \/ GuardedUpdate(p)
    \/ UpdateBusy(p)
    \/ InsertSpin(p)
    \/ InsertFail(p)
    \/ CommitSpin(p)
    \/ \E d \in HouseDraws : LegacyCompute(p, d[1], d[2])
    \/ LegacyUpdate(p)
    \/ LegacyRecord(p)

SpecStake == Init /\ [][NextStake]_vars

\* a stake a settlement may run on: a positive whole number of tokens
PositiveInteger(amount) == amount > 0 /\ amount % UNIT = 0

\* C13: a spin request whose stake is not a positive integer is rejected
\* and changes nothing: every request that is taken on for settlement has
\* a positive whole stake, the step that takes in a request changes no
\* balance, score or ledger row, and every ledger row has the stake of its
\* request, a positive whole number.
C13_InvalidStakeRejected ==
  /\ [](\A i \in DOMAIN spins : PositiveInteger(spins[i].bet_amount))
  /\ [][/\ \A p \in Procs :
            (pc[p] \in Closed /\ pc'[p] \notin Closed)
              => PositiveInteger(txn'[p].amount)
        /\ nreq' # nreq => (players' = players /\ spins' = spins)]_vars

----------------------------------------------------------------------------
(* Exact arithmetic on naturals beyond 32 bits: a number is the sequence of *)
(* its digits to the base BigBase, lowest first, without leading zeros.     *)

BigBase == 1000
BigZero == << >>
BigOne == <<1>>

RECURSIVE BigAddC(_, _, _)
BigAddC(x, y, carry) ==
  IF x = << >> /\ y = << >>
    THEN IF carry = 0 THEN << >> ELSE <<carry>>
  ELSE LET a == IF x = << >> THEN 0 ELSE Head(x)
           b == IF y = << >> THEN 0 ELSE Head(y)
           s == a + b + carry
       IN  <<s % BigBase>> \o BigAddC(IF x = << >> THEN x ELSE Tail(x),
                                      IF y = << >> THEN y ELSE Tail(y),
                                      s \div BigBase)

BigAdd(x, y) == BigAddC(x, y, 0)

\* x * k + carry for 0 < k < BigBase
RECURSIVE BigMulDigit(_, _, _)
BigMulDigit(x, k, carry) ==
  IF x = << >>
    THEN IF carry = 0 THEN << >> ELSE <<carry>>
  ELSE <<(Head(x) * k + carry) % BigBase>>
         \o BigMulDigit(Tail(x), k, (Head(x) * k + carry) \div BigBase)

\* x * k for a natural k
RECURSIVE BigMul(_, _)
BigMul(x, k) ==
  IF k = 0 \/ x = << >> THEN << >>
  ELSE BigAdd(IF k % BigBase = 0 THEN << >> ELSE BigMulDigit(x, k % BigBase, 0),
              IF k \div BigBase = 0 THEN << >>
              ELSE <<0>> \o BigMul(x, k \div BigBase))

----------------------------------------------------------------------------
(* game.js: the expected payout of a player ticket.  An outcome ticket is   *)
(* eight draws of crypto.randomInt(75) and one roll; a draw gives category  *)
(* c in as many ways as weightedBucket maps values of 0..74 to c.           *)

\* draws that weightedBucket maps to category c
Ways(c) == Cardinality({v \in 0..(TOTAL_WEIGHT - 1) : weightedBucket(v) = c})

\* the eight categories of a ticket in draw order: color, symbol per quadrant
Category(playerTicket, k) ==
  IF k % 2 = 1 THEN playerTicket.traits[(k + 1) \div 2].color
  ELSE playerTicket.traits[k \div 2].symbol

\* for the first k draws: by number of matches m, the number of draw
\* sequences of 0..74 whose categories give m matches with playerTicket
RECURSIVE MatchWays(_, _)
MatchWays(playerTicket, k) ==
  IF k = 0 THEN [m \in 0..8 |-> IF m = 0 THEN BigOne ELSE BigZero]
  ELSE LET before == MatchWays(playerTicket, k - 1)
           hit    == Ways(Category(playerTicket, k))
       IN  [m \in 0..8 |->
              BigAdd(BigMul(before[m], TOTAL_WEIGHT - hit),
                     IF m = 0 THEN BigZero ELSE BigMul(before[m - 1], hit))]

\* sum over all draw sequences of payoutMultiplierBps * effectiveRoi, at a
\* fixed activity score, currency and special-match status
RECURSIVE PayoutSum(_, _, _, _, _)
PayoutSum(ways, activityScore, currency, hasSpecialMatch, m) ==
  IF m > 8 THEN BigZero
  ELSE BigAdd(
         BigMul(BigMul(ways[m], PayoutMultiplierBps(m, hasSpecialMatch)),
                EffectiveRoi(calculateRoi(activityScore, currency),
                             IF currency = CURRENCY_WWXRP
                               THEN calculateWwxrpHighRoi(activityScore) ELSE 0,
                             bonusBucket(m, hasSpecialMatch), currency)),
         PayoutSum(ways, activityScore, currency, hasSpecialMatch, m + 1))

\* x times the product of the eight weights of the ticket's categories
RECURSIVE BigMulWeights(_, _, _)
BigMulWeights(x, playerTicket, k) ==
  IF k > 8 THEN x
  ELSE BigMulWeights(BigMul(x, BUCKET_WEIGHTS[Category(playerTicket, k) + 1]),
                     playerTicket, k + 1)

\* The expected payout per unit stake of playerTicket is
\*   sum * EvNormNum / (den * 75^8 * 100 * 10000)
\* with sum the payout sum over all draw sequences and den the denominator
\* of calculateEvNormalization(playerTicket).
ExpectedPayout(playerTicket, activityScore, currency, hasSpecialMatch) ==
  [sum |-> PayoutSum(MatchWays(playerTicket, 8), activityScore, currency,
                     hasSpecialMatch, 0),
   den |-> EvNormDen(playerTicket)]

\* player tickets: per quadrant a color of weight 10 or 8 and a symbol of
\* weight 10 or 9
EvTraits(q) == {Trait(q, c, s) : c \in {0, 7}, s \in {0, 4}}
EvTickets ==
  {[traits |-> <<t1, t2, t3, t4>>, special |-> 1] :
     t1 \in EvTraits(0), t2 \in EvTraits(1), t3 \in EvTraits(2), t4 \in EvTraits(3)}
EvScores == {100, 35500}

\* the store as it is when the server starts
EmptyStore ==
  /\ players = << >>
  /\ spins = << >>
  /\ writer = NULL
  /\ pc = [p \in Procs |-> "Idle"]
  /\ txn = [p \in Procs |-> NoTxn]
  /\ stale = [p \in Procs |-> FALSE]
  /\ resp = [p \in Procs |-> NoResp]
  /\ nreq = 0
  /\ agent_registrations = << >>
  /\ session = [s \in Sessions |-> NULL]
  /\ limiter = NoLimiter
  /\ exports = NoExports

store == <<players, spins, writer, pc, txn, stale, resp, nreq, agent_registrations,
          session, limiter, exports>>

InitEv ==
  /\ EmptyStore
  /\ \E t \in EvTickets, s \in EvScores, sm \in BOOLEAN :
       calc = [fn |-> "expectedPayout", done |-> FALSE, ticket |-> t,
               activityScore |-> s, currency |-> CURRENCY_WWXRP,
               hasSpecialMatch |-> sm]

EvaluateExpectedPayout ==
  /\ calc.fn = "expectedPayout"
  /\ ~calc.done
  /\ calc' = [calc EXCEPT !.done = TRUE] @@
               [ev |-> ExpectedPayout(calc.ticket, calc.activityScore,
                                      calc.currency, calc.hasSpecialMatch)]
  /\ UNCHANGED store

NextEv == EvaluateExpectedPayout

SpecEv == InitEv /\ [][NextEv]_vars

\* C14: with the EV normalization factor applied, the expected payout per
\* unit stake is the same for every legal player ticket at fixed activity
\* score, currency and special-match status: it equals that of the ticket
\* of the eight most likely categories (sums compared across denominators).
C14_SameExpectedPayout ==
  (calc.fn = "expectedPayout" /\ calc.done)
    => BigMulWeights(calc.ev.sum, UniformTicket, 1)
         = BigMulWeights(ExpectedPayout(UniformTicket, calc.activityScore,
                                        calc.currency, calc.hasSpecialMatch).sum,
                         calc.ticket, 1)

----------------------------------------------------------------------------
(* calculateEvNormalization in its two formulations, for a table of eight   *)
(* weights whose sum is the total weight.                                   *)

RECURSIVE SumWeights(_, _)
SumWeights(weights, k) ==
  IF k > Len(weights) THEN 0 ELSE weights[k] + SumWeights(weights, k + 1)

\* part_000: the ratio a quadrant contributes, as <<num, den>>
QuadrantFactorSignSlip(weights, pTrait, rTrait) ==
  LET total == SumWeights(weights, 1)
      wC == weights[pTrait.color + 1]
      wS == weights[pTrait.symbol + 1]
      colorMatch  == pTrait.color = rTrait.color
      symbolMatch == pTrait.symbol = rTrait.symbol
  IN  IF colorMatch /\ symbolMatch THEN <<100, wC * wS>>
      ELSE IF colorMatch \/ symbolMatch
        THEN <<1300, 2 * wC * wS - total * (wC + wS)>>
      ELSE <<4225, (total - wC) * (total - wS)>>

QuadrantFactor(weights, pTrait, rTrait) ==
  LET total == SumWeights(weights, 1)
      wC == weights[pTrait.color + 1]
      wS == weights[pTrait.symbol + 1]
      colorMatch  == pTrait.color = rTrait.color
      symbolMatch == pTrait.symbol = rTrait.symbol
  IN  IF colorMatch /\ symbolMatch THEN <<100, wC * wS>>
      ELSE IF colorMatch \/ symbolMatch
        THEN <<1300, total * (wC + wS) - 2 * wC * wS>>
      ELSE <<4225, (total - wC) * (total - wS)>>

\* part_000: num and den are the products of the four quadrants' ratios
PerOutcomeEvNormalization(weights, playerTicket, resultTicket) ==
  [q \in 1..4 |-> QuadrantFactor(weights, playerTicket.traits[q],
                                 resultTicket.traits[q])]

\* game.js: uniformWeightProduct / totalWeightProduct, both over total^8
EvNormalization(weights, playerTicket) ==
  [num |-> EvNormNum, den |-> WeightProductOf(weights, playerTicket, 1)]

WeightTables ==
  {BUCKET_WEIGHTS, <<14, 13, 12, 11, 10, 8, 4, 3>>, <<12, 12, 12, 12, 12, 12, 2, 1>>}

NormTraits(q) == {Trait(q, c, s) : c \in {0, 7}, s \in {0, 4, 7}}
NormTickets ==
  {[traits |-> <<t1, t2, Trait(2, 7, 7), Trait(3, 0, 4)>>, special |-> 1] :
     t1 \in NormTraits(0), t2 \in NormTraits(1)}
NormOutcomeTraits(q) == {Trait(q, c, s) : c \in {0, 7}, s \in {0, 7}}
NormOutcomes ==
  {[traits |-> <<t1, t2, Trait(2, 7, 7), Trait(3, 5, 5)>>, special |-> 0] :
     t1 \in NormOutcomeTraits(0), t2 \in NormOutcomeTraits(1)}

InitNorm ==
  /\ EmptyStore
  /\ \E w \in WeightTables, t \in NormTickets, r \in NormOutcomes :
       calc = [fn |-> "calculateEvNormalization", done |-> FALSE,
               weights |-> w, playerTicket |-> t, resultTicket |-> r]

EvaluateEvNormalization ==
  /\ calc.fn = "calculateEvNormalization"
  /\ ~calc.done
  /\ calc' = [calc EXCEPT !.done = TRUE] @@
               [evNorm |-> EvNormalization(calc.weights, calc.playerTicket),
                perOutcome |-> PerOutcomeEvNormalization(
                                 calc.weights, calc.playerTicket, calc.resultTicket)]
  /\ UNCHANGED store

NextNorm == EvaluateEvNormalization

SpecNorm == InitNorm /\ [][NextNorm]_vars

----------------------------------------------------------------------------
(* calculateRoi over the activity scores, one score after the other.        *)

MaxCurveScore == 35600
CurveCurrencies == {CURRENCY_WWXRP, 0}

InitCurve ==
  /\ EmptyStore
  /\ \E c \in CurveCurrencies :
       calc = [fn |-> "calculateRoi", activityScore |-> 0 - 1, currency |-> c,
               roi |-> calculateRoi(0 - 1, c)]

\* the call with the next score
EvaluateRoi ==
  /\ calc.fn = "calculateRoi"
  /\ calc.activityScore < MaxCurveScore
  /\ calc' = [calc EXCEPT !.activityScore = @ + 1,
                          !.roi = calculateRoi(calc.activityScore + 1, calc.currency)]
  /\ UNCHANGED store

NextCurve == EvaluateRoi

SpecCurve == InitCurve /\ [][NextCurve]_vars

\* C16: for every activity score in 0..35500 calculateRoi lies in
\* [9000, 9990], and it does not decrease from a score to the next one
\* (hence from any score to any larger one).
C16_RoiRangeMonotone ==
  /\ [](calc.fn = "calculateRoi" /\ calc.activityScore \in MIN_SCORE..MAX_SCORE
          => calc.roi \in ROI_MIN..ROI_MAX)
  /\ [][calc.fn = "calculateRoi" /\ calc'.activityScore \in MIN_SCORE..MAX_SCORE
          => calc'.roi >= calc.roi]_vars

\* the curve has been followed up to a score where double precision loses
\* one basis point and the value equals that of the score before
C16_Witness ==
  /\ calc.fn = "calculateRoi"
  /\ calc.activityScore = 17620
  /\ calc.roi = calculateRoi(17619, calc.currency)
  /\ calc.roi = RoiCurve(17620) - 1

\* C17: calculateRoi equals the four-segment curve with exact floors at
\* every score, takes exactly 9500, 9950 and 9990 at 7500, 25500 and 35500
\* and never exceeds the upper anchor of the segment the score is in.
C17_ReferenceCurve ==
  calc.fn = "calculateRoi"
    => /\ calc.roi = RoiCurve(calc.activityScore)
       /\ (calc.activityScore = MID_SCORE => calc.roi = ROI_MID)
       /\ (calc.activityScore = HIGH_SCORE => calc.roi = ROI_HIGH)
       /\ (calc.activityScore = MAX_SCORE => calc.roi = ROI_MAX)
       /\ (calc.activityScore <= MID_SCORE => calc.roi <= ROI_MID)
       /\ (calc.activityScore <= HIGH_SCORE => calc.roi <= ROI_HIGH)
       /\ calc.roi <= ROI_MAX

----------------------------------------------------------------------------
(* The bonus adjustment: spinFullTicket's effective ROI, and               *)
(* bonusRoiForBucket with the factor tables of game.js and of part_000.    *)

\* part_000: the bonus factors of the ruleset without special marker
BASE_BONUS_FACTOR_BUCKET5 == 1531388
BASE_BONUS_FACTOR_BUCKET6 == 13016797
BASE_BONUS_FACTOR_BUCKET7 == 57745766
BASE_BONUS_FACTOR_BUCKET8 == 30027799

BaseBonusFactor(bucket) ==
  IF bucket = 5 THEN BASE_BONUS_FACTOR_BUCKET5
  ELSE IF bucket = 6 THEN BASE_BONUS_FACTOR_BUCKET6
  ELSE IF bucket = 7 THEN BASE_BONUS_FACTOR_BUCKET7
  ELSE IF bucket = 8 THEN BASE_BONUS_FACTOR_BUCKET8
  ELSE 0

BaseBonusRoiForBucket(bucket, bonusRoiBps) ==
  IF BaseBonusFactor(bucket) = 0 THEN 0
  ELSE MulDivFloor(bonusRoiBps, BaseBonusFactor(bucket), WWXRP_BONUS_FACTOR_SCALE)

Rulesets == {"extended", "base"}
Buckets(ruleset) == IF ruleset = "extended" THEN 5..9 ELSE 5..8
FactorOf(ruleset, bucket) ==
  IF ruleset = "extended" THEN BonusFactor(bucket) ELSE BaseBonusFactor(bucket)

BonusScores == {0, 100, 5250, 7500, 12000, 25500, 30000, 35500}
BonusCurrencies == {0, 1, 2, CURRENCY_WWXRP}
BonusRoiInputs == {1, 7, ETH_ROI_BONUS_BPS, 1000}

InitBonus ==
  /\ EmptyStore
  /\ \/ \E s \in BonusScores, m \in 0..8, sm \in BOOLEAN, c \in BonusCurrencies :
          calc = [fn |-> "effectiveRoi", done |-> FALSE, activityScore |-> s,
                  matches |-> m, hasSpecialMatch |-> sm, currency |-> c]
     \/ \E r \in Rulesets, d \in BonusRoiInputs :
          calc = [fn |-> "bonusRoiForBucket", done |-> FALSE, ruleset |-> r,
                  bonusRoiBps |-> d]

\* spinFullTicket, lines 189-190 and 220-227
EvaluateEffectiveRoi ==
  /\ calc.fn = "effectiveRoi"
  /\ ~calc.done
  /\ LET roiBps  == calculateRoi(calc.activityScore, calc.currency)
         highRoi == IF calc.currency = CURRENCY_WWXRP
                      THEN calculateWwxrpHighRoi(calc.activityScore) ELSE 0
         bucket  == bonusBucket(calc.matches, calc.hasSpecialMatch)
     IN  calc' = [calc EXCEPT !.done = TRUE] @@
                   [roiBps |-> roiBps, highRoi |-> highRoi, bucket |-> bucket,
                    effectiveRoi |-> EffectiveRoi(roiBps, highRoi, bucket,
                                                  calc.currency)]
  /\ UNCHANGED store

\* bonusRoiForBucket for every bucket of the ruleset
EvaluateBonus ==
  /\ calc.fn = "bonusRoiForBucket"
  /\ ~calc.done
  /\ calc' = [calc EXCEPT !.done = TRUE] @@
               [bonus |-> [b \in Buckets(calc.ruleset) |->
                             IF calc.ruleset = "extended"
                               THEN bonusRoiForBucket(b, calc.bonusRoiBps)
                             ELSE BaseBonusRoiForBucket(b, calc.bonusRoiBps)]]
  /\ UNCHANGED store

NextBonus == EvaluateEffectiveRoi \/ EvaluateBonus

SpecBonus == InitBonus /\ [][NextBonus]_vars

\* floor(excess * factor / 1000000), factor split at the scale
ScaledExcess(excess, factor) ==
  excess * (factor \div WWXRP_BONUS_FACTOR_SCALE)
    + (excess * (factor % WWXRP_BONUS_FACTOR_SCALE)) \div WWXRP_BONUS_FACTOR_SCALE

\* C18: the effective ROI is the base ROI when the bucket is 0 or the
\* currency is neither 3 nor 0; for currency 3, a bucket b # 0 and a
\* high-ROI value h above the base it is base + floor((h - base) *
\* factor[b] / 1000000); for currency 0 and b # 0 it is base + floor(500 *
\* factor[b] / 1000000); it is never below the base ROI.
C18_EffectiveRoi ==
  (calc.fn = "effectiveRoi" /\ calc.done)
    => /\ (calc.bucket = 0 \/ calc.currency \notin {CURRENCY_WWXRP, 0})
            => calc.effectiveRoi = calc.roiBps
       /\ (calc.currency = CURRENCY_WWXRP /\ calc.bucket # 0
             /\ calc.highRoi > calc.roiBps)
            => calc.effectiveRoi
                 = calc.roiBps + ScaledExcess(calc.highRoi - calc.roiBps,
                                              BonusFactor(calc.bucket))
       /\ (calc.currency = 0 /\ calc.bucket # 0)
            => calc.effectiveRoi
                 = calc.roiBps + ScaledExcess(500, BonusFactor(calc.bucket))
       /\ calc.effectiveRoi >= calc.roiBps

\* a bonus has been added in the primary currency for the top bucket
C18_Witness ==
  /\ calc.fn = "effectiveRoi"
  /\ calc.done
  /\ calc.currency = CURRENCY_WWXRP
  /\ calc.bucket = 9
  /\ calc.highRoi > calc.roiBps
  /\ calc.effectiveRoi > calc.roiBps + 300000

\* C19: the bonus factors increase with the bucket (5 < 6 < 7 < 8, and
\* 8 < 9 in the extended ruleset), so that for a fixed excess the bonus
\* does not decrease when the bucket increases.
C19_FactorsIncrease ==
  (calc.fn = "bonusRoiForBucket" /\ calc.done)
    => \A b \in Buckets(calc.ruleset) :
         (b + 1) \in Buckets(calc.ruleset)
           => /\ FactorOf(calc.ruleset, b) < FactorOf(calc.ruleset, b + 1)
              /\ calc.bonus[b] <= calc.bonus[b + 1]

----------------------------------------------------------------------------
(* spinFullTicket and recordSpin on chosen outcomes: the house ticket       *)
(* matches the player's in the first k categories drawn.                    *)

\* part_000: the payout table of the ruleset without special marker
BASE_FULL_TICKET_PAYOUTS_BPS == <<0, 0, 190, 475, 1500, 4250, 19500, 100000, 10000000>>

\* part_000: spinFullTicket's multiplier and jackpot flag
BaseOutcome(matches) ==
  [payoutMultiplierBps |-> BASE_FULL_TICKET_PAYOUTS_BPS[matches + 1],
   isJackpot           |-> matches = 8]

\* a value of randomInt(75) that weightedBucket maps to category c
DrawFor(c) == CHOOSE v \in 0..(TOTAL_WEIGHT - 1) : weightedBucket(v) = c

OutcomeDraws(playerTicket, k) ==
  [i \in 1..8 |-> IF i <= k THEN DrawFor(Category(playerTicket, i))
                  ELSE DrawFor((Category(playerTicket, i) + 1) % 8)]

OutcomeTickets == {UniformTicket, RareTicket}
OutcomeRolls == {0, 1, 50}
OutcomeScores == {0, 7400, 35400}
OutcomeCurrencies == {CURRENCY_WWXRP, CURRENCY_ETH}
\* stakes small enough for a jackpot payout to stay within 32 bits
OutcomeStakes == {Tokens(1), Tokens(2), Tokens(5)}

InitOutcome ==
  /\ EmptyStore
  /\ \E t \in OutcomeTickets, k \in 0..8, roll \in OutcomeRolls,
        s \in OutcomeScores, c \in OutcomeCurrencies, a \in OutcomeStakes :
       calc = [fn |-> "spinFullTicket", done |-> FALSE,
               player |-> [NewPlayer(1, Subject, "AAAA1111")
                             EXCEPT !.activity_score_bps = s],
               ticket |-> t, amount |-> a, currency |-> c,
               draws |-> OutcomeDraws(t, k), roll |-> roll]

\* spinFullTicket, and the row recordSpin makes of its result
EvaluateSpin ==
  /\ calc.fn = "spinFullTicket"
  /\ ~calc.done
  /\ LET result == spinFullTicket(calc.player, calc.ticket, calc.amount,
                                  calc.currency, calc.draws, calc.roll)
     IN  calc' = [calc EXCEPT !.done = TRUE] @@
                   [result |-> result,
                    row    |-> SpinRow(calc.player, result.spin),
                    base   |-> BaseOutcome(result.spin.matches)]
  /\ UNCHANGED store

NextOutcome == EvaluateSpin

SpecOutcome == InitOutcome /\ [][NextOutcome]_vars

\* C20: in every settlement result, and by the matches and tickets of its
\* ledger row, isJackpot is true exactly when all eight categories match
\* and, in the ruleset with special markers, the markers match too; the
\* payout multiplier is 10000000 in exactly these cases.
C20_JackpotIff ==
  (calc.fn = "spinFullTicket" /\ calc.done)
    => LET spin == calc.result.spin
       IN  /\ spin.matches = countMatches(spin.playerTicket, spin.resultTicket)
           /\ spin.isJackpot <=> (spin.matches = 8 /\ spin.specialMatch)
           /\ spin.isJackpot <=> spin.payoutMultiplierBps = 10000000
           /\ spin.isJackpot <=>
                /\ calc.row.matches = 8
                /\ specialsMatch(calc.row.player_ticket.special,
                                 calc.row.house_ticket.special)
           /\ calc.base.isJackpot <=> spin.matches = 8
           /\ calc.base.isJackpot <=> calc.base.payoutMultiplierBps = 10000000

\* a jackpot has been settled and paid
C20_Witness ==
  /\ calc.fn = "spinFullTicket"
  /\ calc.done
  /\ calc.result.spin.isJackpot
  /\ calc.result.spin.matches = 8
  /\ calc.result.spin.payout > Tokens(100000)
  /\ calc.ticket = RareTicket

----------------------------------------------------------------------------
(* countMatches and specialsMatch on pairs of tickets.                      *)

MatchPlayerTickets ==
  {[traits |-> <<Trait(0, c, 0), Trait(1, 0, s), Trait(2, 7, 4), Trait(3, 0, 0)>>,
    special |-> sp] : c \in {0, 7}, s \in {0, 4}, sp \in 0..3}
MatchResultTraits(q) == {Trait(q, c, s) : c \in {0, 7}, s \in {0, 4}}
MatchResultTickets ==
  {[traits |-> <<t1, t2, t3, t4>>, special |-> sp] :
     t1 \in MatchResultTraits(0), t2 \in MatchResultTraits(1),
     t3 \in MatchResultTraits(2), t4 \in MatchResultTraits(3), sp \in 0..3}

InitMatch ==
  /\ EmptyStore
  /\ \E t \in MatchPlayerTickets, r \in MatchResultTickets :
       calc = [fn |-> "countMatches", done |-> FALSE,
               playerTicket |-> t, resultTicket |-> r]

EvaluateMatches ==
  /\ calc.fn = "countMatches"
  /\ ~calc.done
  /\ calc' = [calc EXCEPT !.done = TRUE] @@
               [matches |-> countMatches(calc.playerTicket, calc.resultTicket),
                specialMatch |-> specialsMatch(calc.playerTicket.special,
                                               calc.resultTicket.special)]
  /\ UNCHANGED store

NextMatch == EvaluateMatches

SpecMatch == InitMatch /\ [][NextMatch]_vars

\* the (quadrant, attribute) pairs in which two tickets agree
EqualPairs(playerTicket, resultTicket) ==
  {qa \in (1..4) \X {"color", "symbol"} :
     playerTicket.traits[qa[1]][qa[2]] = resultTicket.traits[qa[1]][qa[2]]}

\* C21: the match count is the number of (quadrant, attribute) pairs among
\* 4 quadrants x {color, symbol} with equal values, hence in 0..8, and
\* specialMatch holds exactly when both special markers are nonzero and equal.
C21_MatchCount ==
  (calc.fn = "countMatches" /\ calc.done)
    => /\ calc.matches = Cardinality(EqualPairs(calc.playerTicket, calc.resultTicket))
       /\ calc.matches \in 0..8
       /\ calc.specialMatch <=>
            /\ calc.playerTicket.special # 0
            /\ calc.resultTicket.special # 0
            /\ calc.playerTicket.special = calc.resultTicket.special

\* three attributes match, in quadrants that do not match as a whole, and
\* the special markers are equal and nonzero
C21_Witness ==
  /\ calc.fn = "countMatches"
  /\ calc.done
  /\ calc.matches = 3
  /\ calc.specialMatch
  /\ \A q \in 1..4 : calc.playerTicket.traits[q] # calc.resultTicket.traits[q]

----------------------------------------------------------------------------
(* The payout multiplier by match count and special match.                  *)

\* the reclassification rule over a table indexed by match count 0..8
Reclassified(table, m, special) ==
  IF special /\ m = 8 THEN 10000000
  ELSE IF special THEN Max(table[m + 2], 400)
  ELSE table[m + 1]

\* C22 as stated: the multiplier follows the reclassification rule over a
\* table whose entry for 8 matches is the jackpot multiplier.
C22_TableEndsInJackpot ==
  (calc.fn = "spinFullTicket" /\ calc.done)
    => calc.result.spin.payoutMultiplierBps
         = Reclassified([FULL_TICKET_PAYOUTS_BPS EXCEPT ![9] = 10000000],
                        calc.result.spin.matches, calc.result.spin.specialMatch)

\* C22 amended: the multiplier follows the reclassification rule over the
\* table 0, 0, 189, 500, 1778, 6667, 31100, 155600, 355600, whose entry
\* for 8 matches is below the jackpot multiplier.
C22_Reclassification ==
  (calc.fn = "spinFullTicket" /\ calc.done)
    => calc.result.spin.payoutMultiplierBps
         = Reclassified(<<0, 0, 189, 500, 1778, 6667, 31100, 155600, 355600>>,
                        calc.result.spin.matches, calc.result.spin.specialMatch)

\* a special match with no other match has been settled at the minimum
C22_Witness ==
  /\ calc.fn = "spinFullTicket"
  /\ calc.done
  /\ calc.result.spin.matches = 0
  /\ calc.result.spin.specialMatch
  /\ calc.result.spin.payoutMultiplierBps = SPECIAL_MATCH_MIN_MULTIPLIER_BPS

----------------------------------------------------------------------------
(* The ledger of one player: wagers of 100 and 600 tokens settled by two    *)
(* connections on house tickets with 0, 1 and 2 matches and with a special  *)
(* match.                                                                   *)

MaxLedgerSpins == 2

LedgerAmounts == {Num(Tokens(100)), Num(Tokens(600))}
LedgerDraws ==
  { <<<<74, 74, 74, 74, 74, 74, 74, 74>>, 50>>,
    <<<<0, 74, 74, 74, 74, 74, 74, 74>>, 50>>,
    <<<<0, 5, 74, 74, 74, 74, 74, 74>>, 50>>,
    <<<<74, 74, 74, 74, 74, 74, 74, 74>>, 0>> }

NextLedger ==
  \E p \in Procs :
    \/ getOrCreatePlayer(p, Subject, "AAAA1111")
    \/ /\ nreq < MaxLedgerSpins
       /\ \E m \in LedgerAmounts :
            SpinRequest(p, Subject, UniformTicket, m, CURRENCY_WWXRP)
    \/ \E d \in LedgerDraws : ComputeSpin(p, d[1], d[2])
    \/ GuardedUpdate(p)
    \/ UpdateBusy(p)
    \/ InsertSpin(p)
    \/ InsertFail(p)
    \/ CommitSpin(p)

SpecLedger == Init /\ [][NextLedger]_vars

\* connection p holds a settlement result
HasResult(p) == pc[p] \in {"Computed", "Updated", "Inserted"}

\* a result without special match and with at most one match
PlainLoss(spin) == ~spin.specialMatch /\ spin.matches \in {0, 1}

\* C23: a settlement without special match and with 0 or 1 matches has
\* payout multiplier 0, bonus bucket 0, payout 0 and netResult = -stake, and
\* its commit lowers the stored balance by exactly the stake; a stake of 100
\* at activity score 0 with 0 matches has base ROI 9000 bps, payout 0 and
\* netResult -100.
C23_PlainLoss ==
  /\ [](\A p \in Procs :
          (HasResult(p) /\ PlainLoss(txn[p].result.spin))
            => LET spin == txn[p].result.spin
               IN  /\ spin.payoutMultiplierBps = 0
                   /\ bonusBucket(spin.matches, spin.specialMatch) = 0
                   /\ spin.payout = 0
                   /\ spin.netResult = 0 - txn[p].amount
                   /\ (txn[p].amount = Tokens(100)
                         /\ txn[p].player.activity_score_bps = 0
                         /\ spin.matches = 0)
                        => /\ calculateRoi(txn[p].result.player.activity_score_bps,
                                           txn[p].currency) = 9000
                           /\ spin.netResult = 0 - Tokens(100))
  /\ [][\A p \in Procs :
          (Commits(p) /\ PlainLoss(txn[p].result.spin))
            => players'[txn[p].address].balance_wwxrp
                 = players[txn[p].address].balance_wwxrp - txn[p].amount]_vars

\* a loss of 100 tokens with no match has been committed on a new player
C23_Witness ==
  /\ Len(spins) = 1
  /\ spins[1].matches = 0
  /\ spins[1].bet_amount = Tokens(100)
  /\ spins[1].net = 0 - Tokens(100)
  /\ players[Subject].balance_wwxrp = Tokens(900)

\* C24: a settlement with 8 matches and a special match has the jackpot
\* constant as payout multiplier, isJackpot true and a payout strictly
\* greater than 1000 times the stake, for every stake, activity score and
\* player ticket.
C24_JackpotPayout ==
  (calc.fn = "spinFullTicket" /\ calc.done
     /\ calc.result.spin.matches = 8 /\ calc.result.spin.specialMatch)
    => /\ calc.result.spin.payoutMultiplierBps = JACKPOT_MULTIPLIER_BPS
       /\ calc.result.spin.isJackpot
       /\ calc.result.spin.payout > calc.amount * 1000

\* a jackpot at a score where the high-ROI value is below the base ROI, on
\* the ticket with the smallest normalization factor
C24_Witness ==
  /\ calc.fn = "spinFullTicket"
  /\ calc.done
  /\ calc.result.spin.isJackpot
  /\ calc.ticket = UniformTicket
  /\ calc.currency = CURRENCY_WWXRP
  /\ calc.result.player.activity_score_bps = MID_SCORE
  /\ calc.result.spin.payout = calc.amount * 95000

----------------------------------------------------------------------------
(* weightedBucket on every draw value, and generateRandomTicket.            *)

\* cumulative after i rounds of the loop of weightedBucket
RECURSIVE CumulativeWeight(_)
CumulativeWeight(i) ==
  IF i = 0 THEN 0 ELSE CumulativeWeight(i - 1) + BUCKET_WEIGHTS[i]

\* the loop of weightedBucket returns in one of its rounds
ReturnsInLoop(randomValue) ==
  \E i \in 1..Len(BUCKET_WEIGHTS) : randomValue % TOTAL_WEIGHT < CumulativeWeight(i)

\* sequences of eight values of crypto.randomInt(75)
TicketDraws ==
  {[i \in 1..8 |-> (first + step * i) % TOTAL_WEIGHT] :
     first \in 0..(TOTAL_WEIGHT - 1), step \in {0, 7}}
TicketRolls == {0, 1, 2, 50}

InitBucket ==
  /\ EmptyStore
  /\ \/ \E v \in 0..(TOTAL_WEIGHT - 1) :
          calc = [fn |-> "weightedBucket", done |-> FALSE, randomValue |-> v]
     \/ \E d \in TicketDraws, roll \in TicketRolls :
          calc = [fn |-> "generateRandomTicket", done |-> FALSE,
                  draws |-> d, roll |-> roll]

EvaluateBucket ==
  /\ calc.fn = "weightedBucket"
  /\ ~calc.done
  /\ calc' = [calc EXCEPT !.done = TRUE] @@
               [bucket |-> weightedBucket(calc.randomValue),
                inLoop |-> ReturnsInLoop(calc.randomValue)]
  /\ UNCHANGED store

EvaluateTicket ==
  /\ calc.fn = "generateRandomTicket"
  /\ ~calc.done
  /\ calc' = [calc EXCEPT !.done = TRUE] @@
               [ticket |-> generateRandomTicket(calc.draws, calc.roll)]
  /\ UNCHANGED store

NextBucket == EvaluateBucket \/ EvaluateTicket

SpecBucket == InitBucket /\ [][NextBucket]_vars

\* C25: for draw values 0..74 weightedBucket returns a category in 0..7,
\* category i for exactly the 10, 10, 10, 10, 9, 9, 9, 8 values of the
\* contiguous range that starts where the range of i - 1 ends, and never by
\* its fallback return; every color and symbol of a generated ticket lies
\* in 0..7.
C25_Buckets ==
  /\ (calc.fn = "weightedBucket" /\ calc.done)
       => LET first == <<0, 10, 20, 30, 40, 49, 58, 67, 75>>
          IN  /\ calc.bucket \in 0..7
              /\ calc.randomValue >= first[calc.bucket + 1]
              /\ calc.randomValue < first[calc.bucket + 2]
              /\ Cardinality({v \in 0..74 : weightedBucket(v) = calc.bucket})
                   = <<10, 10, 10, 10, 9, 9, 9, 8>>[calc.bucket + 1]
              /\ calc.inLoop
  /\ (calc.fn = "generateRandomTicket" /\ calc.done)
       => \A q \in 1..4 : /\ calc.ticket.traits[q].color \in 0..7
                          /\ calc.ticket.traits[q].symbol \in 0..7

\* the largest draw value has been mapped to the last category
C25_Witness ==
  /\ calc.fn = "weightedBucket"
  /\ calc.done
  /\ calc.randomValue = 74
  /\ calc.bucket = 7

----------------------------------------------------------------------------
(* src/index.js: the wagers of one player through the handler without       *)
(* atomicSpin, run by two server processes on the same database file.       *)

MaxLegacySpins == 2

NextLegacy ==
  \E p \in Procs :
    \/ getOrCreatePlayer(p, Subject, "AAAA1111")
    \/ /\ nreq < MaxLegacySpins
       /\ \E m \in LedgerAmounts :
            LegacyRequest(p, Subject, UniformTicket, m, CURRENCY_WWXRP)
    \/ \E d \in LedgerDraws : LegacyCompute(p, d[1], d[2])
    \/ LegacyUpdate(p)
    \/ LegacyRecord(p)

SpecLegacy == Init /\ [][NextLegacy]_vars

\* the sum of the net values of the ledger rows i..Len(rows) of a player
RECURSIVE SumNet(_, _, _)
SumNet(rows, id, i) ==
  IF i > Len(rows) THEN 0
  ELSE (IF rows[i].player_id = id THEN rows[i].net ELSE 0) + SumNet(rows, id, i + 1)

\* C26: the handler of index.js applies no wager against a stale balance:
\* the balance a handler writes is computed from the balance stored at the
\* time of its write, also when two executions for one player interleave,
\* so that once the handlers have finished the stored balance is the
\* starting balance plus the net results of the wagers recorded.
C26_NoStaleBalance ==
  /\ [][\A p \in Procs :
          (pc[p] = "LegacyComputed" /\ pc'[p] = "LegacyUpdated")
            => players'[txn[p].address].balance_wwxrp
                 = NewBalance(players[txn[p].address].balance_wwxrp,
                              txn[p].result.spin.totalBet,
                              txn[p].result.spin.totalPayout)]_vars
  /\ []((Subject \in DOMAIN players /\ \A p \in Procs : pc[p] \in Closed)
          => players[Subject].balance_wwxrp
               = Tokens(1000) + SumNet(spins, players[Subject].id, 1))

\* C27: ledger and balance reconcile in every reachable state: the stored
\* balance of every player is the initial balance 1000 plus the sum of the
\* net values of the player's ledger rows, and every ledger row has
\* net = payout - bet_amount, bet_amount > 0 and payout >= 0.
C27_LedgerReconciles ==
  /\ \A a \in DOMAIN players :
       players[a].balance_wwxrp = Tokens(1000) + SumNet(spins, players[a].id, 1)
  /\ \A i \in DOMAIN spins :
       /\ spins[i].net = spins[i].payout - spins[i].bet_amount
       /\ spins[i].bet_amount > 0
       /\ spins[i].payout >= 0

\* C28: for a fixed special-match status the payout multiplier does not
\* decrease when the match count increases, and for every match count the
\* multiplier with a special match is at least the one without and at
\* least 400 bps.
C28_MultiplierMonotone ==
  (calc.fn = "spinFullTicket" /\ calc.done)
    => LET spin == calc.result.spin
       IN  /\ spin.matches < 8
                => spin.payoutMultiplierBps
                     <= PayoutMultiplierBps(spin.matches + 1, spin.specialMatch)
           /\ spin.matches > 0
                => spin.payoutMultiplierBps
                     >= PayoutMultiplierBps(spin.matches - 1, spin.specialMatch)
           /\ spin.specialMatch
                => /\ spin.payoutMultiplierBps >= 400
                   /\ spin.payoutMultiplierBps
                        >= PayoutMultiplierBps(spin.matches, FALSE)
           /\ ~spin.specialMatch
                => spin.payoutMultiplierBps
                     <= PayoutMultiplierBps(spin.matches, TRUE)

\* a special match with one match pays the minimum, as with no match
C28_Witness ==
  /\ calc.fn = "spinFullTicket"
  /\ calc.done
  /\ calc.result.spin.matches = 1
  /\ calc.result.spin.specialMatch
  /\ calc.result.spin.payoutMultiplierBps = 400

----------------------------------------------------------------------------
(* index.js: wallet sign-in (POST /api/wallet/nonce, /verify, /logout)     *)

\* values of crypto.randomBytes(16).toString('hex')
WalletNonces == {"n1", "n2"}

\* req.body.address as the clients send it: checksummed, lower case, no address
WalletAddressInputs == {"0xA1", "0xa2", "zz"}

\* String.prototype.toLowerCase on the addresses the model handles
ToLowerCase(text) ==
  IF text = "0xA1" THEN "0xa1"
  ELSE IF text = "0xA2" THEN "0xa2"
  ELSE IF text = "0xEE" THEN "0xee"
  ELSE text

\* ethers isAddress on the lower-cased input
isAddress(address) == address \in Addresses

\* `Degenerette login\nNonce: ${nonce}`
LoginMessage(nonce) == [text |-> "Degenerette login", nonce |-> nonce]

\* req.body.signature: the signature of signer's key over message, bytes
\* that are no signature, or nothing
Signature(signer, message) ==
  [kind |-> "signed", signer |-> signer, message |-> message]
Malformed == [kind |-> "malformed", signer |-> NULL, message |-> LoginMessage(NULL)]
Absent == [kind |-> "absent", signer |-> NULL, message |-> LoginMessage(NULL)]

\* ethers verifyMessage(message, signature) on a well-formed signature: the
\* checksummed address of the key that signed, when message is what was
\* signed; over any other message an address nobody holds
verifyMessage(message, signature) ==
  IF signature.message # message THEN "0xEE"
  ELSE IF signature.signer = "0xa1" THEN "0xA1"
  ELSE "0xA2"

\* every signature the players' keys have produced may be submitted, by
\* its owner or by someone who has seen it
WalletSignatures ==
  {Signature(a, LoginMessage(n)) : a \in Addresses, n \in WalletNonces}
    \cup {Malformed, Absent}

\* nonces still stored or read by a verify that has not finished: 128
\* random bits differ from each of them
LiveNonces ==
  {players[a].nonce : a \in DOMAIN players}
    \cup {txn[q].nonce : q \in {r \in Procs : pc[r] = "VerifyAccepted"}}

\* POST /api/wallet/nonce: the validation and getOrCreatePlayer(address)
WalletNonceCreate(p, input, referral) ==
  /\ pc[p] \in Closed
  /\ LET address == ToLowerCase(input)
     IN  IF ~isAddress(address)
           THEN /\ Finish(p, "Rejected", Error(400, "Invalid address"))
                /\ NoWrite
           ELSE /\ IF address \in DOMAIN players
                     THEN NoWrite
                     ELSE /\ referral \notin UsedCodes
                          /\ writer = NULL
                          /\ players' = players @@
                               (address :> NewPlayer(Cardinality(DOMAIN players) + 1,
                                                     address, referral))
                          /\ stale' = Outdated(p)
                /\ pc' = [pc EXCEPT ![p] = "NonceCreated"]
                /\ txn' = [txn EXCEPT ![p] = [open |-> FALSE, address |-> address]]
                /\ UNCHANGED resp
  /\ UNCHANGED <<spins, writer, nreq, registry>>

\* POST /api/wallet/nonce: setPlayerNonce(address, nonce) and the response
WalletNonceSet(p, nonce) ==
  /\ pc[p] = "NonceCreated"
  /\ nonce \notin LiveNonces
  /\ WriteRow(p, txn[p].address, [players[txn[p].address] EXCEPT !.nonce = nonce])
  /\ Finish(p, "Committed", Ok)
  /\ UNCHANGED <<spins, writer, nreq, registry>>

\* POST /api/wallet/verify up to req.session.walletAddress = address:
\* getPlayerByAddress is its only statement on the database
WalletVerify(p, s, input, signature) ==
  /\ pc[p] \in Closed
  /\ LET address == ToLowerCase(input)
     IN  IF ~isAddress(address) \/ signature = Absent
           THEN /\ Finish(p, "Rejected", Error(400, "Invalid payload"))
                /\ UNCHANGED session
         ELSE IF address \notin DOMAIN players
           THEN /\ Finish(p, "Rejected", Error(400, "No nonce for address"))
                /\ UNCHANGED session
         ELSE IF players[address].nonce = NULL
           THEN /\ Finish(p, "Rejected", Error(400, "No nonce for address"))
                /\ UNCHANGED session
         ELSE IF signature = Malformed
           THEN /\ Finish(p, "Rejected", Error(400, "Invalid signature"))
                /\ UNCHANGED session
         ELSE IF ToLowerCase(verifyMessage(LoginMessage(players[address].nonce),
                                           signature)) # address
           THEN /\ Finish(p, "Rejected", Error(401, "Signature mismatch"))
                /\ UNCHANGED session
         ELSE /\ session' = [session EXCEPT ![s] = address]
              /\ pc' = [pc EXCEPT ![p] = "VerifyAccepted"]
              /\ txn' = [txn EXCEPT ![p] =
                           [open      |-> FALSE,
                            address   |-> address,
                            session   |-> s,
                            signature |-> signature,
                            nonce     |-> players[address].nonce]]
              /\ UNCHANGED resp
  /\ UNCHANGED <<players, spins, writer, stale, nreq, agent_registrations, calc, limiter,
               exports>>

\* POST /api/wallet/verify: clearPlayerNonce(address) and the response (a
\* request without referrerCode, from a session without a Discord user)
WalletVerifyClear(p) ==
  /\ pc[p] = "VerifyAccepted"
  /\ WriteRow(p, txn[p].address, [players[txn[p].address] EXCEPT !.nonce = NULL])
  /\ Finish(p, "Committed", Ok)
  /\ UNCHANGED <<spins, writer, nreq, registry>>

\* POST /api/wallet/logout
WalletLogout(p, s) ==
  /\ pc[p] \in Closed
  /\ session' = [session EXCEPT ![s] = NULL]
  /\ Finish(p, "Committed", [status |-> 204, error |-> ""])
  /\ UNCHANGED <<players, spins, writer, stale, nreq, agent_registrations, calc, limiter,
               exports>>

NextWallet ==
  \E p \in Procs :
    \/ \E a \in WalletAddressInputs, r \in Codes : WalletNonceCreate(p, a, r)
    \/ \E n \in WalletNonces : WalletNonceSet(p, n)
    \/ \E s \in Sessions, a \in WalletAddressInputs, g \in WalletSignatures :
         WalletVerify(p, s, a, g)
    \/ WalletVerifyClear(p)
    \/ \E s \in Sessions : WalletLogout(p, s)

SpecWallet == Init /\ [][NextWallet]_vars

\* a verify step of connection p that sets the wallet address of session s
Accepts(p, s) ==
  /\ pc[p] \in Closed
  /\ pc'[p] = "VerifyAccepted"
  /\ txn'[p].session = s
  /\ txn'[p].address = session'[s]
  /\ txn'[p].address \in DOMAIN players
  /\ players[txn'[p].address].nonce # NULL
  /\ ToLowerCase(verifyMessage(LoginMessage(players[txn'[p].address].nonce),
                               txn'[p].signature)) = session'[s]

\* a session's walletAddress becomes A only in a verify step whose
\* signature recovers to A over the message with the nonce stored for A
C29_OnlyByVerify ==
  [][\A s \in Sessions :
       (session'[s] # session[s] /\ session'[s] # NULL)
         => \E p \in Procs : Accepts(p, s)]_vars

\* a verify that has accepted a signature leaves the nonce cleared
C29_ClearsNonce ==
  [][\A p \in Procs :
       (pc[p] = "VerifyAccepted" /\ pc'[p] # "VerifyAccepted")
         => players'[txn[p].address].nonce = NULL]_vars

\* no signature is accepted twice for an address without a nonce issued
\* in between
C29_NoReplay ==
  \A p \in Procs : \A q \in Procs \ {p} :
    ~ /\ pc[p] = "VerifyAccepted"
      /\ pc[q] = "VerifyAccepted"
      /\ txn[p].address = txn[q].address
      /\ txn[p].signature = txn[q].signature

\* a verify that answers with an error leaves every walletAddress as it was
C29_FailedVerify ==
  [][session' # session
       => \A p \in Procs, s \in Sessions :
            \A a \in WalletAddressInputs, g \in WalletSignatures :
              ~(WalletVerify(p, s, a, g) /\ pc'[p] = "Rejected")]_vars

\* C29: a session's walletAddress becomes address A only in a verify step
\* whose signature recovers to A over the login message with the nonce
\* stored for A; a successful verify clears that nonce, so the same
\* signature does not verify again until a new nonce is issued; a failed
\* verify leaves the session's walletAddress unchanged.
C29_SignIn ==
  /\ C29_OnlyByVerify
  /\ C29_ClearsNonce
  /\ []C29_NoReplay
  /\ C29_FailedVerify

----------------------------------------------------------------------------
(* storage.js: setAffiliateConfig statement by statement, on two           *)
(* connections                                                             *)

LockCodes == {"vip", "BBBB2222", "x"}
LockRakebacks == {500, 1000, 123}

\* setAffiliateConfig up to the check of player.referral_locked: the reads
\* getPlayerByAddress and getPlayerByReferralCode and the validation
setAffiliateConfigRead(p, address, code, rakebackBps) ==
  /\ pc[p] \in Closed
  /\ IF AffiliateError(address, code, rakebackBps) # ""
       THEN Finish(p, "Rejected", Error(400, AffiliateError(address, code, rakebackBps)))
       ELSE /\ pc' = [pc EXCEPT ![p] = "AffiliateChecked"]
            /\ txn' = [txn EXCEPT ![p] =
                         [open        |-> FALSE,
                          address     |-> address,
                          normalized  |-> Normalized(code),
                          parsedBps   |-> rakebackBps]]
            /\ UNCHANGED resp
  /\ UNCHANGED <<players, spins, writer, stale, nreq, registry>>

\* UPDATE players SET referral_code = ?, affiliate_rakeback_bps = ?,
\* referral_locked = 1 WHERE eth_address = ?; referral_code is UNIQUE and the
\* statement throws when another row carries the code by now
setAffiliateConfigWrite(p) ==
  /\ pc[p] = "AffiliateChecked"
  /\ IF ByReferralCode(txn[p].normalized) \ {txn[p].address} # {}
       THEN /\ NoWrite
            /\ Finish(p, "Failed", Error(500, "UNIQUE constraint failed"))
       ELSE /\ WriteRow(p, txn[p].address,
                 [players[txn[p].address] EXCEPT
                    !.referral_code = txn[p].normalized,
                    !.affiliate_rakeback_bps = txn[p].parsedBps,
                    !.referral_locked = 1])
            /\ Finish(p, "Committed", Ok)
  /\ UNCHANGED <<spins, writer, nreq, registry>>

NextAffiliate ==
  \E p \in Procs :
    \/ \E a \in Addresses, r \in Codes : getOrCreatePlayer(p, a, r)
    \/ \E r \in Codes : ensureReferralCode(p, Subject, r)
    \/ \E c \in ReferrerInputs : setReferrerCode(p, Subject, c)
    \/ \E c \in LockCodes, b \in LockRakebacks :
         setAffiliateConfigRead(p, Subject, c, b)
    \/ setAffiliateConfigWrite(p)

SpecAffiliate == Init /\ [][NextAffiliate]_vars

\* no step changes the code or the rakeback of a locked row
C30_LockedUnchanged ==
  [][\A a \in DOMAIN players :
       players[a].referral_locked = 1
         => /\ players'[a].referral_code = players[a].referral_code
            /\ players'[a].affiliate_rakeback_bps = players[a].affiliate_rakeback_bps
            /\ players'[a].referral_locked = 1]_vars

\* no setAffiliateConfig succeeds on a locked row
C30_LaterConfigFails ==
  [][\A p \in Procs :
       (pc[p] = "AffiliateChecked" /\ pc'[p] = "Committed")
         => players[txn[p].address].referral_locked = 0]_vars

\* the stored rakeback is one of the six allowed values
C30_AllowedRakeback ==
  \A a \in DOMAIN players : players[a].affiliate_rakeback_bps \in AllowedBps

\* C30: once a setAffiliateConfig has succeeded for a player
\* (referral_locked = 1), no later operation changes the player's
\* referral_code or affiliate_rakeback_bps, every later setAffiliateConfig
\* returns an error, and the stored rakeback is always one of 0, 500, 1000,
\* 1500, 2000, 2500.
C30_AffiliateLock ==
  /\ C30_LockedUnchanged
  /\ C30_LaterConfigFails
  /\ []C30_AllowedRakeback

----------------------------------------------------------------------------
(* storage.js: setReferrerCode statement by statement, on two connections  *)

ReferralAffiliateCodes == {"vip", "AAAA1111", "BBBB2222"}

\* setReferrerCode up to the check of the referrer: the normalization and
\* the read getPlayerByReferralCode(normalized)
setReferrerCodeRead(p, address, referrerCode) ==
  /\ pc[p] \in Closed
  /\ IF \/ referrerCode = ""
        \/ Normalized(referrerCode) = ""
        \/ ByReferralCode(Normalized(referrerCode)) = {}
        \/ address \in ByReferralCode(Normalized(referrerCode))
       THEN Finish(p, "Committed", Ok)
       ELSE /\ pc' = [pc EXCEPT ![p] = "ReferrerFound"]
            /\ txn' = [txn EXCEPT ![p] =
                         [open       |-> FALSE,
                          address    |-> address,
                          normalized |-> Normalized(referrerCode)]]
            /\ UNCHANGED resp
  /\ UNCHANGED <<players, spins, writer, stale, nreq, registry>>

\* UPDATE players SET referrer_code = ? WHERE eth_address = ? AND
\* referrer_code IS NULL
setReferrerCodeWrite(p) ==
  /\ pc[p] = "ReferrerFound"
  /\ IF \/ txn[p].address \notin DOMAIN players
        \/ players[txn[p].address].referrer_code # NULL
       THEN /\ writer = NULL
            /\ NoWrite
       ELSE WriteRow(p, txn[p].address,
              [players[txn[p].address] EXCEPT !.referrer_code = txn[p].normalized])
  /\ Finish(p, "Committed", Ok)
  /\ UNCHANGED <<spins, writer, nreq, registry>>

NextReferrer ==
  \E p \in Procs :
    \/ \E a \in Addresses, r \in Codes : getOrCreatePlayer(p, a, r)
    \/ \E a \in Addresses, c \in ReferrerInputs : setReferrerCodeRead(p, a, c)
    \/ setReferrerCodeWrite(p)
    \/ \E a \in Addresses, c \in ReferralAffiliateCodes :
         setAffiliateConfig(p, a, c, 500)

SpecReferrer == Init /\ [][NextReferrer]_vars

\* a step that writes referrer_code writes it over NULL, and to a code
\* that is then the referral_code of another player
C31_WrittenFromNull ==
  [][\A a \in DOMAIN players :
       players'[a].referrer_code # players[a].referrer_code
         => /\ players[a].referrer_code = NULL
            /\ ByReferralCode(players'[a].referrer_code) \ {a} # {}]_vars

\* a call with an empty, unknown or own code changes nothing
C31_RejectedInput ==
  [][\A p \in Procs, a \in Addresses, c \in ReferrerInputs :
       (/\ setReferrerCodeRead(p, a, c)
        /\ \/ Normalized(c) = ""
           \/ ByReferralCode(Normalized(c)) \ {a} = {})
         => /\ players' = players
            /\ pc'[p] = "Committed"]_vars

\* C31: referrer_code is assigned at most once: setReferrerCode writes it
\* only while it is NULL and only to a code that at that moment is the
\* referral_code of a different existing player; once non-NULL it never
\* changes; a call with an unknown, empty or own code changes nothing.
C31_ReferrerOnce ==
  /\ C31_WrittenFromNull
  /\ C31_RejectedInput

----------------------------------------------------------------------------
(* storage.js: the referral operations called one after the other          *)

NextReferral ==
  \/ \E a \in Addresses, r \in Codes : getOrCreatePlayer("p1", a, r)
  \/ \E a \in Addresses, c \in ReferrerInputs : setReferrerCode("p1", a, c)
  \/ \E a \in Addresses, r \in Codes : ensureReferralCode("p1", a, r)
  \/ \E a \in Addresses, c \in ReferralAffiliateCodes, b \in RakebackInputs :
       setAffiliateConfig("p1", a, c, b)

SpecReferral == Init /\ [][NextReferral]_vars

\* C32: no player is their own referrer: no player has a non-NULL
\* referrer_code equal to that player's own referral_code.
C32_NoSelfReferral ==
  \A a \in DOMAIN players :
    players[a].referrer_code # NULL
      => players[a].referrer_code # players[a].referral_code

----------------------------------------------------------------------------
(* storage.js: registerAgent on a registry that is full or nearly full     *)

\* a row present when the model starts: row i was registered by wallet
\* 0xf<i> with code F<i>
AgentRow(i, pledgeEth) ==
  [id         |-> i,
   address    |-> "0xf" \o ToString(i),
   code       |-> "F" \o ToString(i),
   pledge_eth |-> pledgeEth,
   exported   |-> 0]

\* a registry of n rows, without pledge at the positions unpledged
AgentRegistry(n, unpledged) ==
  [i \in 1..n |-> AgentRow(i, IF i \in unpledged THEN 0 ELSE 1)]

InitAgents ==
  /\ players = << >>
  /\ spins = << >>
  /\ writer = NULL
  /\ pc = [p \in Procs |-> "Idle"]
  /\ txn = [p \in Procs |-> NoTxn]
  /\ stale = [p \in Procs |-> FALSE]
  /\ resp = [p \in Procs |-> NoResp]
  /\ nreq = 0
  /\ calc = NoCalc
  /\ session = [s \in Sessions |-> NULL]
  /\ limiter = NoLimiter
  /\ \E n \in {MAX_AGENT_REGISTRATIONS - 2, MAX_AGENT_REGISTRATIONS} :
       /\ exports = [NoExports EXCEPT !.seq = n]
       /\ \E unpledged \in SUBSET {n - 2, n} :
            agent_registrations = AgentRegistry(n, unpledged)

\* wallets and codes of the requests: new ones and ones already registered
RegistryAddresses ==
  AgentAddresses \cup {AgentRow(1, 0).address,
                       AgentRow(MAX_AGENT_REGISTRATIONS, 0).address}
RegistryCodes == AgentCodes \cup {AgentRow(1, 0).code}

\* ids given out in one behaviour after the rows of the start
MaxAgentInserts == 3

NextAgents ==
  /\ exports.seq < MAX_AGENT_REGISTRATIONS + MaxAgentInserts
  /\ \E a \in RegistryAddresses, c \in RegistryCodes, e \in Pledges :
       registerAgent("p1", a, c, e)

SpecAgents == InitAgents /\ [][NextAgents]_vars

\* what registerAgent returns: the error, or "" and the code bumped
registerAgentResult(address, code, pledgeEth) ==
  LET full == Len(agent_registrations) >= MAX_AGENT_REGISTRATIONS
      rest == IF full /\ pledgeEth > 0 /\ NoPledge # {}
                THEN RemoveAt(agent_registrations, NewestNoPledge)
                ELSE agent_registrations
  IN  IF full /\ pledgeEth > 0 /\ NoPledge = {}
        THEN [error |-> "Registration is full. All slots are held by pledged registrations.",
              bumped |-> NULL]
      ELSE IF full /\ ~(pledgeEth > 0)
        THEN [error |-> "Registration is full. Add an ETH pledge to bump a non-pledged registration.",
              bumped |-> NULL]
      ELSE IF \E i \in DOMAIN rest : rest[i].address = address
        THEN [error |-> "This wallet has already registered a code.", bumped |-> NULL]
      ELSE IF \E i \in DOMAIN rest : rest[i].code = code
        THEN [error |-> "Code is already claimed.", bumped |-> NULL]
      ELSE [error |-> "",
            bumped |-> IF full THEN agent_registrations[NewestNoPledge].code ELSE NULL]

C34_FullRegistry ==
  [][\A a \in RegistryAddresses, c \in RegistryCodes, e \in Pledges :
       (/\ registerAgent("p1", a, c, e)
        /\ Len(agent_registrations) = MAX_AGENT_REGISTRATIONS)
         => IF e = 0 \/ NoPledge = {}
              THEN /\ registerAgentResult(a, c, e).error # ""
                   /\ agent_registrations' = agent_registrations
              ELSE /\ registerAgentResult(a, c, e).bumped
                        = agent_registrations[NewestNoPledge].code
                   /\ agent_registrations' =
                        Append(RemoveAt(agent_registrations, NewestNoPledge),
                               [id |-> exports.seq + 1, address |-> a,
                                code |-> c, pledge_eth |-> e,
                                exported |-> 0])]_vars

\* no step removes a registration that has a pledge
C34_PledgedKept ==
  [][\A i \in DOMAIN agent_registrations :
       agent_registrations[i].pledge_eth > 0
         => \E j \in DOMAIN agent_registrations' :
              agent_registrations'[j] = agent_registrations[i]]_vars

\* C34: when the registry holds 400 registrations, registerAgent with
\* pledge 0 is rejected; with a pledge it removes exactly one registration,
\* the most recently created one without pledge, reports its code as bumped
\* and inserts the new one; if all 400 have a pledge it is rejected; a
\* registration with a pledge is never removed.
C34_Bumping ==
  /\ C34_FullRegistry
  /\ C34_PledgedKept

\* C35: a registerAgent call that returns an error leaves the stored
\* registrations as they were before the call: no registration is removed
\* by a call that does not insert one.
C35_ErrorLeavesRegistry ==
  [][\A a \in RegistryAddresses, c \in RegistryCodes, e \in Pledges :
       (registerAgent("p1", a, c, e) /\ registerAgentResult(a, c, e).error # "")
         => agent_registrations' = agent_registrations]_vars

----------------------------------------------------------------------------
(* index.js (src/unnamed/part_001): rateLimit(maxRequests, windowMs)      *)

\* the arguments of rateLimit
LimitRequests == 2
LimitWindowMs == 2
\* the clock stops at MaxNow; requests handled in one behaviour
MaxNow == 11
MaxLimiterRequests == 5

AllButLimiter ==
  <<players, spins, writer, pc, txn, stale, resp, nreq, agent_registrations,
    calc, session, exports>>

\* Date.now() advances
ClockTick ==
  /\ limiter.now < MaxNow
  /\ limiter' = [limiter EXCEPT !.now = @ + 1]
  /\ UNCHANGED AllButLimiter

\* the entry the middleware counts on: a new window when the key has none
\* or its window is older than windowMs
WindowEntry(key) ==
  IF \/ key \notin DOMAIN limiter.hits
     \/ limiter.now - limiter.hits[key].windowStart > LimitWindowMs
    THEN [windowStart |-> limiter.now, count |-> 0]
    ELSE limiter.hits[key]

\* the middleware on a request of session key: the request is admitted
\* (next()) unless the count of the window exceeds maxRequests (429)
RateLimited(key) ==
  /\ limiter.requests < MaxLimiterRequests
  /\ LET counted == [WindowEntry(key) EXCEPT !.count = @ + 1]
     IN  limiter' =
           [limiter EXCEPT
              !.hits = (key :> counted) @@ @,
              !.admitted = IF counted.count > LimitRequests
                             THEN @
                             ELSE Append(@, [key |-> key, at |-> limiter.now]),
              !.requests = @ + 1]
  /\ UNCHANGED AllButLimiter

\* the setInterval callback, every windowMs * 5: entries older than two
\* windows are deleted
LimiterCleanup ==
  /\ limiter.now > 0
  /\ limiter.now % (LimitWindowMs * 5) = 0
  /\ LET kept == {k \in DOMAIN limiter.hits :
                    ~(limiter.now - limiter.hits[k].windowStart > LimitWindowMs * 2)}
     IN  limiter' = [limiter EXCEPT !.hits = [k \in kept |-> limiter.hits[k]]]
  /\ UNCHANGED AllButLimiter

NextLimiter ==
  \/ ClockTick
  \/ \E key \in Sessions : RateLimited(key)
  \/ LimiterCleanup

SpecLimiter == Init /\ [][NextLimiter]_vars

\* requests of session key admitted at the times from up to (not including) from + windowMs
AdmittedIn(key, from) ==
  Cardinality({i \in DOMAIN limiter.admitted :
                 /\ limiter.admitted[i].key = key
                 /\ limiter.admitted[i].at >= from
                 /\ limiter.admitted[i].at < from + LimitWindowMs})

C36_AnyInterval ==
  \A key \in Sessions, from \in 0..MaxNow : AdmittedIn(key, from) <= LimitRequests

\* a request changes the entry of its own session only
C36_Independent ==
  [][\A key \in Sessions :
       RateLimited(key)
         => \A other \in Sessions \ {key} :
              /\ (other \in DOMAIN limiter.hits) = (other \in DOMAIN limiter'.hits)
              /\ other \in DOMAIN limiter.hits
                   => limiter'.hits[other] = limiter.hits[other]]_vars

\* what the middleware does bound: the requests admitted since the start
\* of the session's current window
C36_PerWindow ==
  \A key \in DOMAIN limiter.hits :
    Cardinality({i \in DOMAIN limiter.admitted :
                   /\ limiter.admitted[i].key = key
                   /\ limiter.admitted[i].at >= limiter.hits[key].windowStart})
      <= LimitRequests

\* C36: rateLimit(maxRequests, windowMs) admits at most maxRequests
\* requests of one session within any interval of windowMs and answers
\* every further request in that interval with 429; requests of different
\* sessions are counted independently.
C36_RateLimit ==
  /\ []C36_AnyInterval
  /\ C36_Independent

----------------------------------------------------------------------------
(* storage.js: the retry loops of getOrCreatePlayer and ensureReferralCode, *)
(* as they are now (at most 20 attempts) and as they were (while (true),   *)
(* src/unnamed/part_002)                                                   *)

\* for (let attempts = 0; attempts < 20; attempts++)
MAX_ATTEMPTS == 20

\* the table at the start: empty, or holding a row written before referral
\* codes were generated (referral_code is nullable)
InitRetry ==
  /\ players \in {<< >>, ("0xa2" :> NewPlayer(1, "0xa2", NULL))}
  /\ spins = << >>
  /\ writer = NULL
  /\ pc = [p \in Procs |-> "Idle"]
  /\ txn = [p \in Procs |-> NoTxn]
  /\ stale = [p \in Procs |-> FALSE]
  /\ resp = [p \in Procs |-> NoResp]
  /\ nreq = 0
  /\ agent_registrations = << >>
  /\ calc = NoCalc
  /\ session = [s \in Sessions |-> NULL]
  /\ limiter = NoLimiter
  /\ exports = NoExports

\* the catch block of both loops: the capped loop throws after the 20th
\* failure, the loop of part_002 generates a new code and tries again
AttemptFailed(p) ==
  IF txn[p].capped /\ txn[p].attempts = MAX_ATTEMPTS - 1
    THEN Finish(p, "Failed", Error(500, "Failed to generate unique referral code"))
    ELSE /\ txn' = [txn EXCEPT ![p].attempts =
                      IF txn[p].capped THEN @ + 1 ELSE @]
         /\ UNCHANGED <<pc, resp>>

\* getOrCreatePlayer: getPlayerByAddress(address) and the return of an
\* existing row
CreateRequest(p, address, capped) ==
  /\ pc[p] \in Closed
  /\ IF address \in DOMAIN players
       THEN Finish(p, "Committed", Ok)
       ELSE /\ pc' = [pc EXCEPT ![p] = "Creating"]
            /\ txn' = [txn EXCEPT ![p] =
                         [open |-> FALSE, address |-> address,
                          attempts |-> 0, capped |-> capped]]
            /\ UNCHANGED resp
  /\ UNCHANGED <<players, spins, writer, stale, nreq, registry>>

\* getOrCreatePlayer: one insert.run(address, referral); eth_address and
\* referral_code are UNIQUE
CreateAttempt(p, referral) ==
  /\ pc[p] = "Creating"
  /\ writer = NULL
  /\ IF txn[p].address \notin DOMAIN players /\ referral \notin UsedCodes
       THEN /\ players' = players @@
                 (txn[p].address :>
                    NewPlayer(Cardinality(DOMAIN players) + 1, txn[p].address, referral))
            /\ stale' = Outdated(p)
            /\ Finish(p, "Committed", Ok)
       ELSE /\ NoWrite
            /\ AttemptFailed(p)
  /\ UNCHANGED <<spins, writer, nreq, registry>>

\* ensureReferralCode: getPlayerByAddress(address) and the early returns
EnsureRequest(p, address, capped) ==
  /\ pc[p] \in Closed
  /\ IF \/ address \notin DOMAIN players
        \/ players[address].referral_code \notin {NULL, ""}
       THEN Finish(p, "Committed", Ok)
       ELSE /\ pc' = [pc EXCEPT ![p] = "Ensuring"]
            /\ txn' = [txn EXCEPT ![p] =
                         [open |-> FALSE, address |-> address,
                          attempts |-> 0, capped |-> capped]]
            /\ UNCHANGED resp
  /\ UNCHANGED <<players, spins, writer, stale, nreq, registry>>

\* ensureReferralCode: one UPDATE players SET referral_code = ? WHERE
\* eth_address = ? AND referral_code IS NULL
EnsureAttempt(p, referral) ==
  /\ pc[p] = "Ensuring"
  /\ writer = NULL
  /\ IF players[txn[p].address].referral_code # NULL
       THEN /\ NoWrite
            /\ Finish(p, "Committed", Ok)
     ELSE IF referral \in UsedCodes
       THEN /\ NoWrite
            /\ AttemptFailed(p)
     ELSE /\ WriteRow(p, txn[p].address,
                [players[txn[p].address] EXCEPT !.referral_code = referral])
          /\ Finish(p, "Committed", Ok)
  /\ UNCHANGED <<spins, writer, nreq, registry>>

NextRetry ==
  \E p \in Procs :
    \/ \E a \in Addresses, capped \in BOOLEAN : CreateRequest(p, a, capped)
    \/ \E r \in Codes : CreateAttempt(p, r)
    \/ \E a \in Addresses, capped \in BOOLEAN : EnsureRequest(p, a, capped)
    \/ \E r \in Codes : EnsureAttempt(p, r)

\* the loops are synchronous code: the next attempt is made; and
\* generateReferralCode does not return taken codes forever
RetryFairness(p) ==
  /\ WF_vars(\E r \in Codes : CreateAttempt(p, r))
  /\ WF_vars(\E r \in Codes : EnsureAttempt(p, r))
  /\ SF_vars(\E r \in Codes : CreateAttempt(p, r) /\ players' # players)
  /\ SF_vars(\E r \in Codes : EnsureAttempt(p, r) /\ players' # players)

SpecRetry == InitRetry /\ [][NextRetry]_vars /\ \A p \in Procs : RetryFairness(p)

InLoop == {"Creating", "Ensuring"}

\* the calls of storage.js as it is now end, after at most 20 attempts
C37_CappedTerminates ==
  /\ \A p \in Procs :
       (pc[p] \in InLoop /\ txn[p].capped) ~> (pc[p] \notin InLoop)
  /\ [](\A p \in Procs : pc[p] \in InLoop => txn[p].attempts < MAX_ATTEMPTS)

\* C37: getOrCreatePlayer and ensureReferralCode always terminate: each
\* makes at most 20 attempts and then stops by raising 'Failed to generate
\* unique referral code', whatever makes the attempts fail.
C37_Terminates ==
  \A p \in Procs : (pc[p] \in InLoop) ~> (pc[p] \notin InLoop)

\* C38: getOrCreatePlayer is idempotent per address: every address has at
\* most one row, a newly created player has balance 1000 and activity
\* score 0, and a call for an address that exists already leaves its row,
\* balance, activity score, referral code and referrer included, as it was.
C38_Idempotent ==
  /\ [](\A a \in DOMAIN players : \A b \in DOMAIN players :
          /\ players[a].eth_address = a
          /\ players[a].id = players[b].id => a = b)
  /\ [][\A p \in Procs, a \in Addresses, r \in Codes :
          getOrCreatePlayer(p, a, r)
            => IF a \in DOMAIN players
                 THEN players' = players
                 ELSE /\ DOMAIN players' = DOMAIN players \cup {a}
                      /\ players'[a].balance_wwxrp = Tokens(1000)
                      /\ players'[a].activity_score_bps = 0
                      /\ \A b \in DOMAIN players : players'[b] = players[b]]_vars

\* a call can be made for a player whose balance, activity score and
\* referrer are no longer those of a new row
C38_Witness ==
  /\ Subject \in DOMAIN players
  /\ players[Subject].balance_wwxrp # Tokens(1000)
  /\ players[Subject].activity_score_bps > 0
  /\ players[Subject].referrer_code # NULL
  /\ pc["p2"] \in Closed
  /\ writer = NULL

-----------------------------------------------------------------------------
(* export-agent-registrations.js: one run of the script is a SELECT of the *)
(* registrations, the JSON written to stdout, and an UPDATE that marks the  *)
(* selected ids; the server keeps registering agents between the two        *)

MaxExportRuns == 3

\* the run of the script that has written its output and not yet marked
ExportRunning == exports.runs # << >> /\ ~exports.runs[Len(exports.runs)].done

\* ids of SELECT * FROM agent_registrations [WHERE exported = 0]
ExportSelected(exportAll) ==
  {agent_registrations[i].id :
     i \in {j \in DOMAIN agent_registrations :
              exportAll \/ agent_registrations[j].exported = 0}}

\* parse the flags, open the database, SELECT, and console.log the output;
\* with no row selected the script prints the empty output and exits
ExportSelect(dryRun, exportAll) ==
  /\ ~ExportRunning
  /\ Len(exports.runs) < MaxExportRuns
  /\ exports' = [exports EXCEPT !.runs =
                   Append(@, [ids       |-> ExportSelected(exportAll),
                              dryRun    |-> dryRun,
                              exportAll |-> exportAll,
                              seq       |-> exports.seq,
                              done      |-> ExportSelected(exportAll) = {}])]
  /\ UNCHANGED <<players, spins, writer, pc, txn, stale, resp, nreq,
                 agent_registrations, calc, session, limiter>>

\* faulty variant: UPDATE agent_registrations SET exported = 1 without WHERE
ExportMarkEvery ==
  /\ ExportRunning
  /\ LET run == exports.runs[Len(exports.runs)] IN
       IF run.dryRun
         THEN UNCHANGED <<agent_registrations, stale>>
         ELSE /\ writer = NULL
              /\ agent_registrations' =
                   [i \in DOMAIN agent_registrations |->
                      [agent_registrations[i] EXCEPT !.exported = 1]]
              /\ stale' = [q \in Procs |-> stale[q] \/ pc[q] \in Reading]
  /\ exports' = [exports EXCEPT !.runs[Len(exports.runs)].done = TRUE]
  /\ UNCHANGED <<players, spins, writer, pc, txn, resp, nreq, calc, session,
                 limiter>>

\* if (!dryRun && registrations.length > 0) UPDATE ... SET exported = 1
\* WHERE id IN (the selected ids); db.close()
ExportMark ==
  /\ ExportRunning
  /\ LET run == exports.runs[Len(exports.runs)] IN
       IF run.dryRun
         THEN UNCHANGED <<agent_registrations, stale>>
         ELSE /\ writer = NULL
              /\ agent_registrations' =
                   [i \in DOMAIN agent_registrations |->
                      IF agent_registrations[i].id \in run.ids
                        THEN [agent_registrations[i] EXCEPT !.exported = 1]
                        ELSE agent_registrations[i]]
              /\ stale' = [q \in Procs |-> stale[q] \/ pc[q] \in Reading]
  /\ exports' = [exports EXCEPT !.runs[Len(exports.runs)].done = TRUE]
  /\ UNCHANGED <<players, spins, writer, pc, txn, resp, nreq, calc, session,
                 limiter>>

\* the registry before the first run of the script: a few rows, or full
InitExport ==
  /\ players = << >>
  /\ spins = << >>
  /\ writer = NULL
  /\ pc = [p \in Procs |-> "Idle"]
  /\ txn = [p \in Procs |-> NoTxn]
  /\ stale = [p \in Procs |-> FALSE]
  /\ resp = [p \in Procs |-> NoResp]
  /\ nreq = 0
  /\ calc = NoCalc
  /\ session = [s \in Sessions |-> NULL]
  /\ limiter = NoLimiter
  /\ \E n \in {2, MAX_AGENT_REGISTRATIONS} :
       /\ exports = [NoExports EXCEPT !.seq = n]
       /\ agent_registrations = AgentRegistry(n, {n})

NextExport ==
  \/ \E dryRun \in BOOLEAN, exportAll \in BOOLEAN : ExportSelect(dryRun, exportAll)
  \/ ExportMark
  \/ /\ exports.seq < Len(agent_registrations) + MaxAgentInserts
     /\ \E a \in AgentAddresses, c \in AgentCodes, e \in Pledges :
          registerAgent("p2", a, c, e)

SpecExport == InitExport /\ [][NextExport]_vars

\* the runs without --all and without --dry-run
DefaultRuns ==
  {k \in DOMAIN exports.runs : ~exports.runs[k].exportAll /\ ~exports.runs[k].dryRun}

\* the runs with --all that marked what they emitted
MarkingAllRuns ==
  {k \in DOMAIN exports.runs : exports.runs[k].exportAll /\ ~exports.runs[k].dryRun}

\* the ids in the table, and those of the rows marked exported
RegistrationIds(rows) == {rows[i].id : i \in DOMAIN rows}
ExportedIds(rows) ==
  {rows[i].id : i \in {j \in DOMAIN rows : rows[j].exported = 1}}

\* a run that is not a dry run marks the registrations it emitted: a row
\* turns exported only in the step that ends such a run, and only when its
\* id is in the output of that run; the rows of the output that are still
\* there are all exported after it; no row is unmarked, and a new row is
\* unexported
C39_MarksEmitted ==
  [][LET marked == ExportedIds(agent_registrations') \ ExportedIds(agent_registrations)
         ends == ExportRunning /\ ~ExportRunning'
                   /\ ~exports.runs[Len(exports.runs)].dryRun
     IN  /\ marked # {} => ends /\ marked \subseteq exports.runs[Len(exports.runs)].ids
         /\ ends => (exports.runs[Len(exports.runs)].ids
                       \cap RegistrationIds(agent_registrations'))
                      \subseteq ExportedIds(agent_registrations')
         /\ (ExportedIds(agent_registrations) \cap RegistrationIds(agent_registrations'))
              \subseteq ExportedIds(agent_registrations')
         /\ (RegistrationIds(agent_registrations')
               \ RegistrationIds(agent_registrations))
              \cap ExportedIds(agent_registrations') = {}]_vars

\* a run with --dry-run changes no row: neither its SELECT nor its end
C39_DryRunReadOnly ==
  [][(exports'.runs # exports.runs
        /\ exports'.runs[Len(exports'.runs)].dryRun)
       => agent_registrations' = agent_registrations]_vars

\* across the default runs no registration is in two outputs; an exported
\* row is in the output of a default run (unless a run with --all marked
\* it), an unexported row is in no output but that of the run still going
\* on, and once a default run has ended the unexported rows are those
\* inserted after its SELECT
C39_EmittedOnce ==
  [](/\ \A k \in DefaultRuns : \A l \in DefaultRuns \ {k} :
          exports.runs[k].ids \cap exports.runs[l].ids = {}
     /\ MarkingAllRuns = {}
          => ExportedIds(agent_registrations)
               \subseteq UNION {exports.runs[k].ids : k \in DefaultRuns}
     /\ \A k \in DefaultRuns :
          exports.runs[k].done
            => /\ exports.runs[k].ids \cap RegistrationIds(agent_registrations)
                    \subseteq ExportedIds(agent_registrations)
               /\ \A id \in RegistrationIds(agent_registrations)
                             \ ExportedIds(agent_registrations) :
                    id > exports.runs[k].seq)

\* C39: a run of export-agent-registrations.js without --dry-run marks as
\* exported exactly the registrations it emitted, so that the ones inserted
\* after its SELECT stay unexported; a run with --dry-run changes no row;
\* and across repeated default runs every registration is emitted by
\* exactly one run.
C39_ExportOnce == C39_MarksEmitted /\ C39_DryRunReadOnly /\ C39_EmittedOnce

\* a default run has ended, a second one has started: a row is exported and
\* a row inserted after the first SELECT is not, and the second run emits it
C39_Witness ==
  /\ Len(exports.runs) = 2
  /\ DefaultRuns = {1, 2}
  /\ ExportRunning
  /\ \E i \in DOMAIN agent_registrations : \E j \in DOMAIN agent_registrations :
       /\ agent_registrations[i].exported = 1
       /\ agent_registrations[i].id \in exports.runs[1].ids
       /\ agent_registrations[j].exported = 0
       /\ agent_registrations[j].id > exports.runs[1].seq
       /\ agent_registrations[j].id \in exports.runs[2].ids
       /\ agent_registrations[j].id <= exports.runs[2].seq

====
